---- MODULE Spec2Model ----
(***************************************************************************)
(* Scan coordinator and resumable cache of the wallet scanner              *)
(* (scanWithBalances.js and solana/scanWithBalances.js).                   *)
(*                                                                         *)
(* One behaviour of Spec is a sequence of invocations of main() over one   *)
(* cache file.  Every invocation is cut into steps at the awaits of        *)
(* main(), so that a process kill can fall between any two of them.        *)
(*                                                                         *)
(* The functions main() relies on have specifications of their own, each   *)
(* over its own variables: RetrySpec (withRetry), PriceSpec                *)
(* (fetchTokenPrices), EvmSpec (one network of the EVM fetchAllBalances),  *)
(* FilterSpec (main and removeDuplicates of the filter scripts),           *)
(* DeriveSpec (the key derivation functions), WalletScanSpec               *)
(* (scanAllWallets of the MetaMask and Phantom scanners), ExportSpec       *)
(* (main of exportSolanaWithSPL.js), ValueSpec (calculateUSDValue of both  *)
(* balance fetchers) and QuerySpec (the network queries of main() and      *)
(* fetchAllBalances while they are in flight).                             *)
(***************************************************************************)
EXTENDS Integers, Sequences, FiniteSets, TLC

(* ------------------------------ bounds -------------------------------- *)
MaxWallets == 3
MaxUSD == 1

(* ---------------------- values of the JS program ---------------------- *)
\* wallet.address strings; "A1" and "a1" differ only in letter case
Addresses == {"a1", "A1", "b2", "c3"}

\* String.prototype.toLowerCase on the address strings
toLowerCase(s) == IF s = "A1" THEN "a1" ELSE s

\* a numeric property that was never assigned (undefined)
NoUSD == -1

\* wallet.balances before the loop reaches the wallet (undefined)
UndefinedBalances == [kind |-> "undefined", totalUSD |-> NoUSD, error |-> FALSE]

\* the literal {} of the catch branch: an object without own keys
EmptyObject == [kind |-> "empty", totalUSD |-> NoUSD, error |-> FALSE]

\* objects fetchAllBalances can return: the asset classes plus totalUSD,
\* or the zero snapshot carrying error: error.message
Snapshots ==
  {[kind |-> "data", totalUSD |-> u, error |-> FALSE] : u \in 0..MaxUSD}
    \cup {[kind |-> "data", totalUSD |-> 0, error |-> TRUE]}

\* an awaited fetchAllBalances(address) either resolves or rejects
FetchOutcomes ==
  {[threw |-> FALSE, balances |-> s] : s \in Snapshots}
    \cup {[threw |-> TRUE, balances |-> EmptyObject]}

\* Object.keys(balances).length
NumKeys(b) == IF b.kind = "data" THEN 1 ELSE 0

\* x || 0 on a number or undefined
OrZero(x) == IF x = NoUSD \/ x = 0 THEN 0 ELSE x

\* the wallet records scanAllWallets returns for the unchanged vault
NewWallet(a) == [address |-> a, balances |-> UndefinedBalances, totalUSD |-> NoUSD]

\* vault contents the scans are run over: no account, one account, distinct
\* addresses, addresses differing only in letter case, the same address in
\* two profiles
VaultShapes ==
  {<<>>, <<"a1">>, <<"a1", "b2">>, <<"a1", "A1">>, <<"a1", "a1">>,
   <<"a1", "b2", "c3">>, <<"b2", "a1", "A1">>, <<"a1", "b2", "a1">>,
   <<"a1", "b2", "c3", "A1">>}

AddressLists == {v \in VaultShapes : Len(v) <= MaxWallets}

(* ----------------------------- JSON file ------------------------------ *)
\* the document slot of a text that is not a JSON document
NoDoc == [totalWallets |-> 0, scannedWallets |-> 0, totalPortfolioUSD |-> 0,
          wallets |-> <<>>]

\* JSON.stringify(data, null, 2): the text written to CACHE_FILE
Stringify(doc) == [valid |-> TRUE, json |-> doc]

\* a file cut short: not a JSON document
TornText == [valid |-> FALSE, json |-> NoDoc]

\* how fs.writeFile(CACHE_FILE, text) can end: resolved, or rejected after
\* the truncating open of flag 'w' (file cut short)
WriteOutcomes == {"ok", "torn"}

\* the file after writeFile(CACHE_FILE, text) settled with outcome o
writeFile(file, text, o) ==
  IF o = "ok" THEN <<text>> ELSE <<TornText>>

\* variant: a text that does not parse is read as a document without wallets
ParseLenient(text) == <<text.json>>

\* JSON.parse(text): <<doc>> or <<>> when the text does not parse
Parse(text) == IF text.valid THEN <<text.json>> ELSE <<>>

\* loadCache(): null (<<>>) when the file is absent or unreadable
loadCache(file) == IF file = <<>> THEN <<>> ELSE Parse(file[1])

\* addresses that have a non-empty balances object in the cache file
Held(file) ==
  LET c == loadCache(file)
  IN  IF c = <<>> THEN {}
      ELSE {c[1].wallets[k].address : k \in {j \in 1..Len(c[1].wallets) :
                                               c[1].wallets[j].balances.kind = "data"}}

(* ------------------------------- state -------------------------------- *)
VARIABLES
  cacheFile,          \* CACHE_FILE on disk: <<>> (absent) or <<text>>
  vault,              \* addresses scanAllWallets discovers, in order
  pc,                 \* position of main()
  skipFetch,          \* --skip-fetch
  forceRescan,        \* --force
  wallets,            \* const wallets = await scanAllWallets(...)
  existingCache,      \* let existingCache: <<>> (null) or <<doc>>
  i,                  \* loop index (0-based as in the source)
  totalPortfolioUSD,
  skippedCount,
  fetchedCount,
  results,            \* let results: <<>> or <<doc>>
  exitCode,           \* -1 running, 0/1 process.exit, 130 killed
  console,            \* kinds of lines printed by this invocation
  heldAtStart,        \* history: addresses with a non-empty snapshot in the
                      \*   cache file when main() was entered
  cacheRead,          \* history: loadCache was called by this invocation
  fetchLog,           \* history: addresses passed to fetchAllBalances
  lastSaved,          \* history: number of wallets in the last saveCache
  delays,             \* history: pacing delays awaited
  settled             \* history: how each fetchAllBalances call settled

scanVars == <<cacheFile, vault, pc, skipFetch, forceRescan, wallets, existingCache,
              i, totalPortfolioUSD, skippedCount, fetchedCount, results, exitCode,
              console, heldAtStart, cacheRead, fetchLog, lastSaved, delays,
              settled>>

\* withRetry(fn, maxRetries) of the Solana balance fetcher
VARIABLES
  wrapped,            \* the fn passed to withRetry
  script,             \* what the endpoint answers to the successive queries
  maxRetries,         \* the second argument of withRetry
  currentRPCIndex,    \* let currentRPCIndex
  retryPc,            \* position of withRetry
  attempt,            \* the loop variable i of withRetry
  invocations,        \* history: calls of fn() so far
  rotations,          \* history: calls of rotateRPC() so far
  retryLog,           \* history: what withRetry did, in order
  retryResult         \* how the withRetry call settled

retryVars == <<wrapped, script, maxRetries, currentRPCIndex, retryPc, attempt,
               invocations, rotations, retryLog, retryResult>>

\* fetchTokenPrices(tokenIds) of the Solana balance fetcher
VARIABLES
  now,                \* Date.now()
  priceCache,         \* let priceCache: price by identifier
  priceCacheTime,     \* let priceCacheTime
  pricePc,            \* position of fetchTokenPrices
  tokenIds,           \* the argument of the call
  callNow,            \* const now of the call
  uncachedIds,        \* const uncachedIds, as a set
  cachedPrices,       \* const cachedPrices, the object returned
  oracleOutcome,      \* how the axios.get of the call settled, if made
  fetchedAt           \* history: when the oracle last answered for an id

priceVars == <<now, priceCache, priceCacheTime, pricePc, tokenIds, callNow,
               uncachedIds, cachedPrices, oracleOutcome, fetchedAt>>

\* one round of the network loop of the EVM fetchAllBalances(address)
VARIABLES
  chain,              \* what the node and the block explorer answer
  settledClasses,     \* the promises of Promise.all that have settled
  native,             \* value of getNativeBalance(address, network)
  erc20,              \* value of getERC20Balances(address, network)
  nfts,               \* value of getNFTBalances(address, network)
  inspected,          \* history: contracts queried, by asset class
  networkResult       \* results[key]: <<>> or <<entry>>

evmVars == <<chain, settledClasses, native, erc20, nfts, inspected, networkResult>>

\* main() and removeDuplicates(wallets) of the filter scripts
VARIABLES
  inputWallets,       \* input.wallets of the file the scan wrote
  filterPc,           \* position of the filter's main()
  output,             \* the document written to OUTPUT_FILE: <<>> or <<doc>>
  filtered,           \* the argument: the wallets that passed hasBalance
  dedupPc,            \* position of removeDuplicates
  dedupIdx,           \* wallets of the for-of loop consumed so far
  walletMap,          \* const walletMap, entries in insertion order
  unique              \* the array returned

filterVars ==
  <<inputWallets, filterPc, output, filtered, dedupPc, dedupIdx, walletMap,
    unique>>

\* the key derivation functions of the wallet scanners and the export script
VARIABLES
  derivations         \* history: the calls made, each with input and result

deriveVars == <<derivations>>

\* scanAllWallets(password, browser) of the wallet scanners
VARIABLES
  scanFamily,         \* "evm" (MetaMask) or "solana" (Phantom)
  scanProfiles,       \* what getBrowserProfilePaths returned, with the stores
  scanIdx,            \* profiles of the for-of loop consumed so far
  allWallets,         \* const allWallets
  scanErrors,         \* console.error lines, each with the profile's name
  scanPc              \* position of scanAllWallets

walletScanVars ==
  <<scanFamily, scanProfiles, scanIdx, allWallets, scanErrors, scanPc>>

\* main() of exportSolanaWithSPL.js
VARIABLES
  walletsWithSPL,     \* the wallets of INPUT_FILE that hold SPL tokens
  exportProfiles,     \* what getBrowserProfilePaths returned, with the stores
  exportIdx,          \* profiles of the for-of loop consumed so far
  allCredentials,     \* const allCredentials, entries in insertion order
  exportWallets,      \* output.wallets as written to OUTPUT_FILE
  exportPc            \* position of the export's main()

exportVars ==
  <<walletsWithSPL, exportProfiles, exportIdx, allCredentials, exportWallets,
    exportPc>>

\* the valuation at the end of fetchAllBalances(address) of both fetchers
VARIABLES
  valueFamily,        \* "evm" or "solana": which balanceFetcher.js
  fetched,            \* the balances object handed to calculateUSDValue
  quotes,             \* what the price functions return, by identifier
  snapshot            \* what fetchAllBalances returned: <<>> or <<balances>>

valueVars == <<valueFamily, fetched, quotes, snapshot>>

\* the queries main() has in flight while it walks through the accounts
VARIABLES
  fetchFamily,        \* "evm" or "solana": which balanceFetcher.js
  fetchIdx,           \* the i of main's loop (0-based)
  queryPc,            \* position of main / fetchAllBalances
  networkIdx,         \* networks of the EVM for-of loop consumed so far
  inFlight,           \* asset-class queries called and not yet settled
  overlapped,         \* history: a query was called while another was in flight
  built,              \* history: the snapshot entries built, in order
  cacheWrites         \* history: the assignments to priceCache, in order

queryVars ==
  <<fetchFamily, fetchIdx, queryPc, networkIdx, inFlight, overlapped, built,
    cacheWrites>>

\* the state outside main(): fetcher modules, filter and export scripts and
\* wallet scanners
libVars ==
  <<retryVars, priceVars, evmVars, filterVars, deriveVars, walletScanVars,
    exportVars, valueVars, queryVars>>

vars == <<scanVars, libVars>>

(* ------------------------- helpers of main() -------------------------- *)
RECURSIVE SumUSD(_)
\* sum of totalUSD over a list of wallet records
SumUSD(ws) == IF ws = <<>> THEN 0 ELSE OrZero(Head(ws).totalUSD) + SumUSD(Tail(ws))

\* addresses of a list of wallet records, in order
AddressesOf(ws) == [k \in 1..Len(ws) |-> ws[k].address]

\* existingWalletMap.get(key) after the loop of set() calls over
\* existingCache.wallets: the last entry with that lower-cased address
existingWalletGet(cache, key) ==
  IF cache = <<>> THEN <<>>
  ELSE LET ws == cache[1].wallets
           hits == {k \in 1..Len(ws) : toLowerCase(ws[k].address) = key}
       IN  IF hits = {} THEN <<>>
           ELSE <<ws[CHOOSE k \in hits : \A j \in hits : j <= k]>>

\* existingWallet && existingWallet.balances && Object.keys(...).length > 0
Reusable(existing) ==
  /\ existing # <<>>
  /\ existing[1].balances.kind # "undefined"
  /\ NumKeys(existing[1].balances) > 0

\* the entry the loop looks at for wallets[i]
ExistingFor(w, cache) == existingWalletGet(cache, toLowerCase(w.address))

\* variant: the reuse branch copies the balances but not the totalUSD
ReuseWalletWithoutTotal(w, existing) ==
  [w EXCEPT !.balances = existing.balances, !.totalUSD = 0]

\* wallet.balances = existingWallet.balances; wallet.totalUSD = ... || 0
ReuseWallet(w, existing) ==
  [w EXCEPT !.balances = existing.balances, !.totalUSD = OrZero(existing.totalUSD)]

\* the try branch: wallet.balances = balances; wallet.totalUSD = ... || 0
FetchedWallet(w, balances) ==
  [w EXCEPT !.balances = balances, !.totalUSD = OrZero(balances.totalUSD)]

\* the catch branch: wallet.balances = {}; wallet.totalUSD = 0
FailedWallet(w) == [w EXCEPT !.balances = EmptyObject, !.totalUSD = 0]

\* variant: the slice stops before the wallet just processed
IntermediateResultsShortSlice(ws, idx, total) ==
  [totalWallets |-> Len(ws), scannedWallets |-> idx + 1,
   totalPortfolioUSD |-> total, wallets |-> SubSeq(ws, 1, idx)]

\* const intermediateResults = {...} of iteration idx (0-based); the
\* timestamps scanDate and lastUpdate and the constant chainType are left out
IntermediateResults(ws, idx, total) ==
  [totalWallets |-> Len(ws), scannedWallets |-> idx + 1,
   totalPortfolioUSD |-> total, wallets |-> SubSeq(ws, 1, idx + 1)]

\* results = {...} after the loop
FinalResults(ws, total) ==
  [totalWallets |-> Len(ws), scannedWallets |-> Len(ws),
   totalPortfolioUSD |-> total, wallets |-> ws]

\* saveCache(data): writeFile inside try/catch, the file it leaves
saveCache(file, data, o) == writeFile(file, Stringify(data), o)

\* what saveCache(data, silent) prints
saveCacheLog(silent, o) ==
  IF o # "ok" THEN {"SaveError"} ELSE IF silent THEN {} ELSE {"Saved"}

(* ------------------------- modules at rest ---------------------------- *)
\* error.message of a thrown value that has no message property
NoMessage == "<undefined>"

\* withRetry is not called
RetryAtRest ==
  /\ wrapped = "none"
  /\ script = <<>>
  /\ maxRetries = 0
  /\ currentRPCIndex = 0
  /\ retryPc = "idle"
  /\ attempt = 0
  /\ invocations = 0
  /\ rotations = 0
  /\ retryLog = <<>>
  /\ retryResult = [kind |-> "none", lamports |-> 0, error |-> NoMessage]

\* price identifiers (coingeckoId) requested here
PriceIds == {"solana", "bonk"}

\* Date.now() when the module is loaded
StartMs == 600000

\* fetchTokenPrices is not called: the module state is as loaded
PriceAtRest ==
  /\ now = StartMs
  /\ priceCache = [id \in PriceIds |-> NoUSD]
  /\ priceCacheTime = 0
  /\ pricePc = "idle"
  /\ tokenIds = {}
  /\ callNow = 0
  /\ uncachedIds = {}
  /\ cachedPrices = <<>>
  /\ oracleOutcome = "none"
  /\ fetchedAt = [id \in PriceIds |-> 0]

\* an explorer listing that names no contract
NoListing == [listing |-> "empty", count |-> 0, held |-> "none"]

\* the EVM fetchAllBalances is not called
EvmAtRest ==
  /\ chain = [native |-> "ok", tokens |-> NoListing, nfts |-> NoListing]
  /\ settledClasses = {}
  /\ native = <<>>
  /\ erc20 = <<>>
  /\ nfts = <<>>
  /\ inspected = [erc20 |-> 0, nfts |-> 0]
  /\ networkResult = <<>>

\* the filter script is not run
FilterAtRest ==
  /\ inputWallets = <<>>
  /\ filterPc = "idle"
  /\ output = <<>>
  /\ filtered = <<>>
  /\ dedupPc = "idle"
  /\ dedupIdx = 0
  /\ walletMap = <<>>
  /\ unique = <<>>

\* the fetcher modules and filter scripts are not used
\* no key is derived
DeriveAtRest == derivations = <<>>

\* scanAllWallets is not called
WalletScanAtRest ==
  /\ scanFamily = "evm"
  /\ scanProfiles = <<>>
  /\ scanIdx = 0
  /\ allWallets = <<>>
  /\ scanErrors = <<>>
  /\ scanPc = "idle"

\* the export script is not run
ExportAtRest ==
  /\ walletsWithSPL = <<>>
  /\ exportProfiles = <<>>
  /\ exportIdx = 0
  /\ allCredentials = <<>>
  /\ exportWallets = <<>>
  /\ exportPc = "idle"

\* no balances are valued
ValueAtRest ==
  /\ valueFamily = "evm"
  /\ fetched = <<>>
  /\ quotes = <<>>
  /\ snapshot = <<>>

\* no query is followed
QueryAtRest ==
  /\ fetchFamily = "evm"
  /\ fetchIdx = 0
  /\ queryPc = "idle"
  /\ networkIdx = 0
  /\ inFlight = {}
  /\ overlapped = FALSE
  /\ built = <<>>
  /\ cacheWrites = <<>>

\* the scripts around the scan are not run
ScriptsAtRest ==
  DeriveAtRest /\ WalletScanAtRest /\ ExportAtRest /\ ValueAtRest /\ QueryAtRest

\* the variables of the scripts around the scan
scriptVars == <<deriveVars, walletScanVars, exportVars, valueVars, queryVars>>

LibAtRest ==
  RetryAtRest /\ PriceAtRest /\ EvmAtRest /\ FilterAtRest /\ ScriptsAtRest

(* ------------------------------ actions ------------------------------- *)
\* a cache file left in the working directory by a scan made when the
\* browser still had a wallet
LeftoverFile ==
  <<Stringify([totalWallets |-> 1, scannedWallets |-> 1, totalPortfolioUSD |-> MaxUSD,
               wallets |-> <<[address |-> "c3",
                              balances |-> [kind |-> "data", totalUSD |-> MaxUSD,
                                            error |-> FALSE],
                              totalUSD |-> MaxUSD]>>])>>

\* the cache file before the first invocation: none; with no account in
\* the vault, possibly the leftover of an earlier scan
InitialFiles(v) == IF v = <<>> THEN {<<>>, LeftoverFile} ELSE {<<>>}

\* main() has not been entered: its locals and the history are empty
ProcessNotStarted ==
  /\ pc = "idle"
  /\ skipFetch = FALSE
  /\ forceRescan = FALSE
  /\ wallets = <<>>
  /\ existingCache = <<>>
  /\ i = 0
  /\ totalPortfolioUSD = 0
  /\ skippedCount = 0
  /\ fetchedCount = 0
  /\ results = <<>>
  /\ exitCode = -1
  /\ console = {}
  /\ heldAtStart = {}
  /\ cacheRead = FALSE
  /\ fetchLog = <<>>
  /\ lastSaved = 0
  /\ delays = 0
  /\ settled = <<>>

\* the coordinator is not run at all
ScanAtRest == vault = <<>> /\ cacheFile = <<>> /\ ProcessNotStarted

Init ==
  /\ vault \in AddressLists
  /\ cacheFile \in InitialFiles(vault)
  /\ ProcessNotStarted
  /\ LibAtRest

\* a fresh process: module state and the locals of main() start over
FreshProcess(sf, fr) ==
  /\ skipFetch' = sf
  /\ forceRescan' = fr
  /\ existingCache' = <<>>
  /\ i' = 0
  /\ totalPortfolioUSD' = 0
  /\ skippedCount' = 0
  /\ fetchedCount' = 0
  /\ heldAtStart' = Held(cacheFile)
  /\ fetchLog' = <<>>
  /\ lastSaved' = 0
  /\ delays' = 0
  /\ settled' = <<>>

\* what loadCache() prints: the console.error of its catch block when the
\* file exists and reading or JSON.parse throws
loadCacheLog(file) ==
  IF file # <<>> /\ ~file[1].valid THEN {"LoadError"} ELSE {}

\* variant: the --skip-fetch branch goes on to the final saveCache(results)
SkipFetchRunSaving(fr) ==
  /\ pc \in {"idle", "done"}
  /\ FreshProcess(TRUE, fr)
  /\ wallets' = <<>>
  /\ cacheRead' = TRUE
  /\ results' = loadCache(cacheFile)
  /\ IF loadCache(cacheFile) = <<>>
       THEN /\ console' = loadCacheLog(cacheFile) \cup {"NoCache"}
            /\ exitCode' = 1 /\ UNCHANGED cacheFile
       ELSE /\ console' = {"Display"} /\ exitCode' = 0
            /\ \E o \in WriteOutcomes :
                 cacheFile' = saveCache(cacheFile, loadCache(cacheFile)[1], o)
  /\ pc' = "done"
  /\ UNCHANGED vault
  /\ UNCHANGED libVars

\* main() with --skip-fetch: results = await loadCache(); exit(1) or display
SkipFetchRun(fr) ==
  /\ pc \in {"idle", "done"}
  /\ FreshProcess(TRUE, fr)
  /\ wallets' = <<>>
  /\ cacheRead' = TRUE
  /\ results' = loadCache(cacheFile)
  /\ IF loadCache(cacheFile) = <<>>
       THEN console' = loadCacheLog(cacheFile) \cup {"NoCache"} /\ exitCode' = 1
       ELSE console' = {"Display"} /\ exitCode' = 0
  /\ pc' = "done"
  /\ UNCHANGED <<cacheFile, vault>>
  /\ UNCHANGED libVars

\* variant: the empty scan falls through to the final save
NoWalletsExitAfterSave ==
  /\ console' = {"NoWalletsFound"}
  /\ exitCode' = 0
  /\ pc' = "done"
  /\ cacheFile' = saveCache(cacheFile, FinalResults(<<>>, 0), "ok")

\* the wallets.length === 0 branch: report and process.exit(0)
NoWalletsExit ==
  /\ console' = {"NoWalletsFound"}
  /\ exitCode' = 0
  /\ pc' = "done"
  /\ UNCHANGED cacheFile

\* main() without --skip-fetch up to the end of scanAllWallets
ScanRun(fr) ==
  /\ pc \in {"idle", "done"}
  /\ FreshProcess(FALSE, fr)
  /\ wallets' = [k \in 1..Len(vault) |-> NewWallet(vault[k])]
  /\ cacheRead' = FALSE
  /\ results' = <<>>
  /\ IF Len(vault) = 0
       THEN NoWalletsExit
       ELSE console' = {} /\ exitCode' = -1 /\ pc' = "load" /\ UNCHANGED cacheFile
  /\ UNCHANGED vault
  /\ UNCHANGED libVars

\* variant: the cache is loaded whatever --force says
LoadedCacheDespiteForce(fr, file) == loadCache(file)

\* existingCache = forceRescan ? null : await loadCache()
LoadedCache(fr, file) == IF fr THEN <<>> ELSE loadCache(file)

LoadExisting ==
  /\ pc = "load"
  /\ existingCache' = LoadedCache(forceRescan, cacheFile)
  /\ cacheRead' = ~forceRescan
  /\ console' = IF forceRescan THEN console
                ELSE console \cup loadCacheLog(cacheFile)
  /\ pc' = "loop"
  /\ UNCHANGED <<cacheFile, vault, skipFetch, forceRescan, wallets, i,
                 totalPortfolioUSD, skippedCount, fetchedCount, results, exitCode,
                 heldAtStart, fetchLog, lastSaved, delays, settled>>
  /\ UNCHANGED libVars

\* variant: the reuse branch does not add to totalPortfolioUSD
LoopReuseWithoutSum ==
  /\ pc = "loop"
  /\ i < Len(wallets)
  /\ LET existing == ExistingFor(wallets[i + 1], existingCache)
     IN  /\ Reusable(existing)
         /\ wallets' = [wallets EXCEPT ![i + 1] = ReuseWallet(@, existing[1])]
  /\ skippedCount' = skippedCount + 1
  /\ i' = i + 1
  /\ UNCHANGED <<cacheFile, vault, pc, skipFetch, forceRescan, existingCache,
                 totalPortfolioUSD, fetchedCount, results, exitCode, console,
                 heldAtStart, cacheRead, fetchLog, lastSaved, delays, settled>>
  /\ UNCHANGED libVars

\* one iteration that takes the "Using cached data" branch (no await)
LoopReuse ==
  /\ pc = "loop"
  /\ i < Len(wallets)
  /\ LET existing == ExistingFor(wallets[i + 1], existingCache)
     IN  /\ Reusable(existing)
         /\ wallets' = [wallets EXCEPT ![i + 1] = ReuseWallet(@, existing[1])]
         /\ totalPortfolioUSD' = totalPortfolioUSD + OrZero(existing[1].totalUSD)
  /\ skippedCount' = skippedCount + 1
  /\ i' = i + 1
  /\ UNCHANGED <<cacheFile, vault, pc, skipFetch, forceRescan, existingCache,
                 fetchedCount, results, exitCode, console,
                 heldAtStart, cacheRead, fetchLog, lastSaved, delays, settled>>
  /\ UNCHANGED libVars

\* the else branch up to the await of fetchAllBalances(wallet.address)
LoopFetch ==
  /\ pc = "loop"
  /\ i < Len(wallets)
  /\ ~Reusable(ExistingFor(wallets[i + 1], existingCache))
  /\ fetchLog' = Append(fetchLog, wallets[i + 1].address)
  /\ pc' = "fetch"
  /\ UNCHANGED <<cacheFile, vault, skipFetch, forceRescan, wallets, existingCache,
                 i, totalPortfolioUSD, skippedCount, fetchedCount, results,
                 exitCode, console, heldAtStart, cacheRead,
                 lastSaved, delays, settled>>
  /\ UNCHANGED libVars

\* variant: no try/catch around the fetch, a rejection ends main()
AfterFetchUncaught(o) ==
  IF o.threw
    THEN /\ console' = console \cup {"FetchError"}
         /\ exitCode' = 1
         /\ pc' = "done"
         /\ UNCHANGED <<wallets, totalPortfolioUSD, fetchedCount>>
    ELSE /\ wallets' = [wallets EXCEPT ![i + 1] = FetchedWallet(@, o.balances)]
         /\ totalPortfolioUSD' = totalPortfolioUSD + OrZero(o.balances.totalUSD)
         /\ fetchedCount' = fetchedCount + 1
         /\ pc' = "save"
         /\ UNCHANGED <<console, exitCode>>

\* what the try/catch around the fetch leaves behind
AfterFetch(o) ==
  IF o.threw
    THEN /\ wallets' = [wallets EXCEPT ![i + 1] = FailedWallet(@)]
         /\ console' = console \cup {"FetchError"}
         /\ pc' = "save"
         /\ UNCHANGED <<totalPortfolioUSD, fetchedCount, exitCode>>
    ELSE /\ wallets' = [wallets EXCEPT ![i + 1] = FetchedWallet(@, o.balances)]
         /\ totalPortfolioUSD' = totalPortfolioUSD + OrZero(o.balances.totalUSD)
         /\ fetchedCount' = fetchedCount + 1
         /\ pc' = "save"
         /\ UNCHANGED <<console, exitCode>>

\* fetchAllBalances settles
FetchSettle ==
  /\ pc = "fetch"
  /\ \E o \in FetchOutcomes :
       /\ AfterFetch(o)
       /\ settled' = Append(settled, [idx |-> i + 1, threw |-> o.threw,
                                      balances |-> o.balances])
  /\ UNCHANGED <<cacheFile, vault, skipFetch, forceRescan, existingCache, i,
                 skippedCount, results, heldAtStart, cacheRead,
                 fetchLog, lastSaved, delays>>
  /\ UNCHANGED libVars

\* await saveCache(intermediateResults, true)
SaveIntermediate ==
  /\ pc = "save"
  /\ \E o \in WriteOutcomes :
       /\ cacheFile' = saveCache(cacheFile,
                                 IntermediateResults(wallets, i, totalPortfolioUSD), o)
       /\ console' = console \cup saveCacheLog(TRUE, o)
  /\ lastSaved' = i + 1
  /\ pc' = "delay"
  /\ UNCHANGED <<vault, skipFetch, forceRescan, wallets, existingCache, i,
                 totalPortfolioUSD, skippedCount, fetchedCount, results, exitCode, heldAtStart, cacheRead, fetchLog, delays, settled>>
  /\ UNCHANGED libVars

\* variant: the pacing delay is skipped after a fetch that threw
DelayOnlyAfterSuccess ==
  /\ pc = "delay"
  /\ delays' = IF wallets[i + 1].balances.kind = "empty" THEN delays ELSE delays + 1
  /\ i' = i + 1
  /\ pc' = "loop"
  /\ UNCHANGED <<cacheFile, vault, skipFetch, forceRescan, wallets, existingCache,
                 totalPortfolioUSD, skippedCount, fetchedCount, results, exitCode,
                 console, heldAtStart, cacheRead, fetchLog, lastSaved, settled>>
  /\ UNCHANGED libVars

\* await new Promise(resolve => setTimeout(resolve, delay)); i++
Delay ==
  /\ pc = "delay"
  /\ delays' = delays + 1
  /\ i' = i + 1
  /\ pc' = "loop"
  /\ UNCHANGED <<cacheFile, vault, skipFetch, forceRescan, wallets, existingCache,
                 totalPortfolioUSD, skippedCount, fetchedCount, results, exitCode,
                 console, heldAtStart, cacheRead, fetchLog, lastSaved, settled>>
  /\ UNCHANGED libVars

\* after the loop: results = {...}; await saveCache(results); display
FinalSave ==
  /\ pc = "loop"
  /\ i >= Len(wallets)
  /\ results' = <<FinalResults(wallets, totalPortfolioUSD)>>
  /\ \E o \in WriteOutcomes :
       /\ cacheFile' = saveCache(cacheFile,
                                 FinalResults(wallets, totalPortfolioUSD), o)
       /\ console' = console \cup saveCacheLog(FALSE, o) \cup {"Complete", "Display"}
  /\ lastSaved' = Len(wallets)
  /\ exitCode' = 0
  /\ pc' = "done"
  /\ UNCHANGED <<vault, skipFetch, forceRescan, wallets, existingCache, i,
                 totalPortfolioUSD, skippedCount, fetchedCount,
                 heldAtStart, cacheRead, fetchLog, delays, settled>>
  /\ UNCHANGED libVars

\* the file a kill leaves: as it was, or cut short when the kill falls into
\* a writeFile in flight
KilledFile(at, file) == IF at = "save" THEN {file, <<TornText>>} ELSE {file}

\* the process is killed (Ctrl+C, crash of the host) while main() is suspended:
\* the memory of the process is gone, the file stays as it is
Interrupt ==
  /\ pc \in {"load", "loop", "fetch", "save", "delay"}
  /\ exitCode' = 130
  /\ pc' = "done"
  /\ wallets' = <<>>
  /\ existingCache' = <<>>
  /\ i' = 0
  /\ totalPortfolioUSD' = 0
  /\ skippedCount' = 0
  /\ fetchedCount' = 0
  /\ console' = {}
  /\ cacheRead' = FALSE
  /\ fetchLog' = <<>>
  /\ lastSaved' = 0
  /\ delays' = 0
  /\ settled' = <<>>
  /\ cacheFile' \in KilledFile(pc, cacheFile)
  /\ UNCHANGED <<vault, skipFetch, forceRescan, results, heldAtStart>>
  /\ UNCHANGED libVars

Next ==
  \/ \E fr \in BOOLEAN : SkipFetchRun(fr)
  \/ \E fr \in BOOLEAN : ScanRun(fr)
  \/ LoadExisting
  \/ LoopReuse
  \/ LoopFetch
  \/ FetchSettle
  \/ SaveIntermediate
  \/ Delay
  \/ FinalSave
  \/ Interrupt

Spec == Init /\ [][Next]_vars

\* main() keeps running as long as the process is not killed
FairSpec ==
  /\ Spec
  /\ WF_vars(LoadExisting)
  /\ WF_vars(LoopReuse)
  /\ WF_vars(LoopFetch)
  /\ WF_vars(FetchSettle)
  /\ WF_vars(SaveIntermediate)
  /\ WF_vars(Delay)
  /\ WF_vars(FinalSave)

TypeOK ==
  /\ pc \in {"idle", "load", "loop", "fetch", "save", "delay", "done"}
  /\ i \in 0..MaxWallets
  /\ Len(wallets) <= MaxWallets
  /\ exitCode \in {-1, 0, 1, 130}

(* ----------------- withRetry (solana/balanceFetcher.js) --------------- *)
\* largest maxRetries argument withRetry is called with here
MaxRetriesArg == 5

\* the default of the parameter maxRetries
DefaultMaxRetries == 3

\* RPC_ENDPOINTS.length
NumEndpoints == 1

\* lamports the chain holds for the queried address
ChainLamports == 2

\* the error property of a result that has none
NoError == ""

\* error.message of the failures an endpoint query can end with
ErrorMessages == {"429", "Too Many Requests", "403 Forbidden", "fetch failed", NoMessage}

\* what one query can be answered with
Answers == {"ok"} \cup ErrorMessages

\* error.message?.includes(sub): undefined (falsy) without a message
includes(msg, sub) ==
  \/ msg = "429" /\ sub = "429"
  \/ msg = "Too Many Requests" /\ sub = "Too Many Requests"
  \/ msg = "403 Forbidden" /\ sub \in {"403", "Forbidden"}

is429(msg) == includes(msg, "429") \/ includes(msg, "Too Many Requests")

is403(msg) == includes(msg, "403") \/ includes(msg, "Forbidden")

\* variant: every failure is retried
ShouldRetryAlways(msg) == TRUE

\* if (is429 || is403)
ShouldRetry(msg) == is429(msg) \/ is403(msg)

\* variant: the backoff is not capped
BackoffDelayUncapped(k) == 1000 * 2^k

\* Math.min(1000 * Math.pow(2, i), 5000)
BackoffDelay(k) == IF 1000 * 2^k < 5000 THEN 1000 * 2^k ELSE 5000

\* currentRPCIndex after rotateRPC()
rotateRPC(idx) == (idx + 1) % NumEndpoints

\* the functions passed to withRetry: one that rejects when its query fails,
\* and the closure of getSOLBalance, whose own try/catch turns a failure
\* into a returned zero balance
Wrappers == {"rejecting", "getSOLBalance"}

\* how fn() settles when its query is answered with a
FnOutcome(w, a) ==
  IF a = "ok" THEN [threw |-> FALSE, lamports |-> ChainLamports, error |-> NoError]
  ELSE IF w = "getSOLBalance" THEN [threw |-> FALSE, lamports |-> 0, error |-> a]
  ELSE [threw |-> TRUE, lamports |-> 0, error |-> a]

\* answers to successive queries, listed up to the first one that is not a
\* rate-limit or authorization failure
Scripts ==
  {s \in UNION {[1..n -> Answers] : n \in 1..MaxRetriesArg} :
     /\ \A k \in 1..(Len(s) - 1) : is429(s[k]) \/ is403(s[k])
     /\ Len(s) = MaxRetriesArg \/ ~(is429(s[Len(s)]) \/ is403(s[Len(s)]))}

\* the answer to the n-th query; past the script the endpoint answers
Answer(n) == IF n <= Len(script) THEN script[n] ELSE "ok"

notRetryVars == <<scanVars, priceVars, evmVars, filterVars, scriptVars>>

\* withRetry(fn, maxRetries) has been called
RetryInit ==
  /\ ScanAtRest /\ PriceAtRest /\ EvmAtRest /\ FilterAtRest /\ ScriptsAtRest
  /\ wrapped \in Wrappers
  /\ script \in Scripts
  /\ maxRetries \in 1..MaxRetriesArg
  /\ currentRPCIndex = 0
  /\ retryPc = "call"
  /\ attempt = 0
  /\ invocations = 0
  /\ rotations = 0
  /\ retryLog = <<>>
  /\ retryResult = [kind |-> "none", lamports |-> 0, error |-> NoMessage]

\* return await fn(): fn is called and runs up to its network query; the
\* closure of getSOLBalance calls getConnection(), which rotates
RetryInvoke ==
  /\ retryPc = "call"
  /\ attempt < maxRetries
  /\ invocations' = invocations + 1
  /\ retryLog' = Append(retryLog, [ev |-> "call", ms |-> 0])
  /\ IF wrapped = "getSOLBalance"
       THEN /\ currentRPCIndex' = rotateRPC(currentRPCIndex)
            /\ rotations' = rotations + 1
       ELSE UNCHANGED <<currentRPCIndex, rotations>>
  /\ retryPc' = "pending"
  /\ UNCHANGED <<wrapped, script, maxRetries, attempt, retryResult>>
  /\ UNCHANGED notRetryVars

\* fn() settles: return its value, or the catch block up to its await
RetrySettle ==
  /\ retryPc = "pending"
  /\ LET o == FnOutcome(wrapped, Answer(invocations))
     IN  IF ~o.threw
           THEN /\ retryResult' = [kind |-> "returned", lamports |-> o.lamports,
                                   error |-> o.error]
                /\ retryPc' = "done"
                /\ UNCHANGED retryLog
           ELSE IF attempt = maxRetries - 1 \/ ~ShouldRetry(o.error)
             THEN /\ retryResult' = [kind |-> "threw", lamports |-> 0,
                                     error |-> o.error]
                  /\ retryPc' = "done"
                  /\ UNCHANGED retryLog
             ELSE /\ retryLog' = Append(retryLog, [ev |-> "wait",
                                                   ms |-> BackoffDelay(attempt)])
                  /\ retryPc' = "wait"
                  /\ UNCHANGED retryResult
  /\ UNCHANGED <<wrapped, script, maxRetries, currentRPCIndex, attempt,
                 invocations, rotations>>
  /\ UNCHANGED notRetryVars

\* the backoff timer fires: rotateRPC(); i++
RetryBackoff ==
  /\ retryPc = "wait"
  /\ currentRPCIndex' = rotateRPC(currentRPCIndex)
  /\ rotations' = rotations + 1
  /\ retryLog' = Append(retryLog, [ev |-> "rotate", ms |-> 0])
  /\ attempt' = attempt + 1
  /\ retryPc' = "call"
  /\ UNCHANGED <<wrapped, script, maxRetries, invocations, retryResult>>
  /\ UNCHANGED notRetryVars

RetryNext == RetryInvoke \/ RetrySettle \/ RetryBackoff

RetrySpec == RetryInit /\ [][RetryNext]_vars

(* ------------- fetchTokenPrices (solana/balanceFetcher.js) ------------ *)
\* largest price (USD) the oracle quotes
MaxPrice == 1

\* the clock is followed for this many steps of TickMs
MaxTicks == 4

\* milliseconds between two looks at the clock
TickMs == 30000

PRICE_CACHE_DURATION == 60000

\* response.data[id]?.usd of a fulfilled request: absent or a price
OraclePrices == {NoUSD} \cup (1..MaxPrice)

\* priceCache[id] && now - priceCacheTime < PRICE_CACHE_DURATION
IsCached(id, t) ==
  /\ priceCache[id] # NoUSD /\ priceCache[id] # 0
  /\ t - priceCacheTime < PRICE_CACHE_DURATION

\* cachedPrices after the catch block: priceCache[id] || 0 for the others
FallbackPrices(cached, ids) ==
  [id \in (DOMAIN cached) \cup ids |->
     IF id \in ids THEN OrZero(priceCache[id]) ELSE cached[id]]

\* cachedPrices after the try block, the oracle having answered quote
UpdatedPrices(cached, ids, quote) ==
  [id \in (DOMAIN cached) \cup ids |->
     IF id \in ids THEN OrZero(quote[id]) ELSE cached[id]]

notPriceVars == <<scanVars, retryVars, evmVars, filterVars, scriptVars>>

PriceInit ==
  /\ ScanAtRest /\ RetryAtRest /\ PriceAtRest /\ EvmAtRest /\ FilterAtRest
  /\ ScriptsAtRest

\* time passes
Tick ==
  /\ now < StartMs + MaxTicks * TickMs
  /\ now' = now + TickMs
  /\ UNCHANGED <<priceCache, priceCacheTime, pricePc, tokenIds, callNow,
                 uncachedIds, cachedPrices, oracleOutcome, fetchedAt>>
  /\ UNCHANGED notPriceVars

\* fetchTokenPrices(ids) up to its return of cached prices or its await
PriceRequest(ids) ==
  /\ pricePc \in {"idle", "done"}
  /\ tokenIds' = ids
  /\ callNow' = now
  /\ uncachedIds' = {id \in ids : ~IsCached(id, now)}
  /\ cachedPrices' = [id \in {x \in ids : IsCached(x, now)} |-> priceCache[id]]
  /\ oracleOutcome' = "none"
  /\ pricePc' = IF \A id \in ids : IsCached(id, now) THEN "done" ELSE "pending"
  /\ UNCHANGED <<now, priceCache, priceCacheTime, fetchedAt>>
  /\ UNCHANGED notPriceVars

\* the oracle answers: update the cache and return
OracleFulfilled(quote) ==
  /\ pricePc = "pending"
  /\ priceCache' = [id \in PriceIds |->
                      IF id \in uncachedIds THEN OrZero(quote[id]) ELSE priceCache[id]]
  /\ cachedPrices' = UpdatedPrices(cachedPrices, uncachedIds, quote)
  /\ priceCacheTime' = callNow
  /\ fetchedAt' = [id \in PriceIds |->
                     IF id \in uncachedIds THEN callNow ELSE fetchedAt[id]]
  /\ oracleOutcome' = "fulfilled"
  /\ pricePc' = "done"
  /\ UNCHANGED <<now, tokenIds, callNow, uncachedIds>>
  /\ UNCHANGED notPriceVars

\* the oracle request fails: the catch block
OracleRejected ==
  /\ pricePc = "pending"
  /\ cachedPrices' = FallbackPrices(cachedPrices, uncachedIds)
  /\ oracleOutcome' = "rejected"
  /\ pricePc' = "done"
  /\ UNCHANGED <<now, priceCache, priceCacheTime, tokenIds, callNow, uncachedIds,
                 fetchedAt>>
  /\ UNCHANGED notPriceVars

PriceNext ==
  \/ Tick
  \/ \E ids \in (SUBSET PriceIds) \ {{}} : PriceRequest(ids)
  \/ \E quote \in [PriceIds -> OraclePrices] : OracleFulfilled(quote)
  \/ OracleRejected

PriceSpec == PriceInit /\ [][PriceNext]_vars

(* ------------- fetchAllBalances (evm/balanceFetcher.js) --------------- *)
\* contracts an explorer listing names beyond the larger limit, at most
MaxExtra == 2

\* tokenContracts.slice(0, 50)
TokenLimit == 50

\* nftContracts.slice(0, 30)
NftLimit == 30

\* wei the node reports for the address
ChainWei == 3

\* numbers of distinct contracts in an explorer listing
ListingSizes(limit) == {0, 1, limit} \cup {limit + k : k \in 1..MaxExtra}

\* which of the listed contracts answer balanceOf with a positive balance:
\* all, none, only the first, only those listed after the first limit
Holdings == {"all", "none", "first", "late"}

\* balance > 0n for the k-th listed contract (a contract whose calls fail
\* is skipped like one with balance 0)
Holds(held, k, limit) ==
  \/ held = "all"
  \/ held = "first" /\ k = 1
  \/ held = "late" /\ k > limit

\* answers of the explorer to tokentx / tokennfttx: the request fails, the
\* status is not '1', or a list of count distinct contracts
Listings(limit) ==
  {[listing |-> "failed", count |-> 0, held |-> "none"], NoListing}
    \cup {[listing |-> "ok", count |-> n, held |-> h] :
            n \in ListingSizes(limit) \ {0}, h \in Holdings}

\* the contracts a listing names, in order
Contracts(l) == [k \in 1..l.count |-> k]

\* the contracts the loop over slice(0, limit) queries
Sliced(l, limit) ==
  SubSeq(Contracts(l), 1, IF l.count < limit THEN l.count ELSE limit)

\* getNativeBalance: the balance, or the zero balance with error
getNativeBalance(answer) ==
  IF answer = "ok" THEN [raw |-> ChainWei, error |-> NoError]
  ELSE [raw |-> 0, error |-> "getBalance failed"]

\* what getERC20Balances / getNFTBalances return for a listing: [] on a
\* failed request or a status that is not '1', else the contracts with a
\* positive balance among the first limit ones
BalancesOf(l, limit) ==
  IF l.listing # "ok" THEN <<>>
  ELSE SelectSeq(Sliced(l, limit), LAMBDA k : Holds(l.held, k, limit))

getERC20Balances(l) == BalancesOf(l, TokenLimit)

getNFTBalances(l) == BalancesOf(l, NftLimit)

\* results[key] = { network, native, erc20Tokens: erc20, nfts }
NetworkEntry(n, e, f) == [native |-> n, erc20Tokens |-> e, nfts |-> f]

notEvmVars == <<scanVars, retryVars, priceVars, filterVars, scriptVars>>

\* the three calls of Promise.all have been made for one network
EvmInit ==
  /\ ScanAtRest /\ RetryAtRest /\ PriceAtRest /\ FilterAtRest /\ ScriptsAtRest
  /\ chain \in [native : {"ok", "failed"}, tokens : Listings(TokenLimit),
                nfts : Listings(NftLimit)]
  /\ settledClasses = {}
  /\ native = <<>>
  /\ erc20 = <<>>
  /\ nfts = <<>>
  /\ inspected = [erc20 |-> 0, nfts |-> 0]
  /\ networkResult = <<>>

\* getNativeBalance settles
NativeSettle ==
  /\ "native" \notin settledClasses /\ networkResult = <<>>
  /\ native' = <<getNativeBalance(chain.native)>>
  /\ settledClasses' = settledClasses \cup {"native"}
  /\ UNCHANGED <<chain, erc20, nfts, inspected, networkResult>>
  /\ UNCHANGED notEvmVars

\* getERC20Balances settles
Erc20Settle ==
  /\ "erc20" \notin settledClasses /\ networkResult = <<>>
  /\ erc20' = <<getERC20Balances(chain.tokens)>>
  /\ inspected' = [inspected EXCEPT !.erc20 =
                     IF chain.tokens.listing = "ok"
                       THEN Len(Sliced(chain.tokens, TokenLimit)) ELSE 0]
  /\ settledClasses' = settledClasses \cup {"erc20"}
  /\ UNCHANGED <<chain, native, nfts, networkResult>>
  /\ UNCHANGED notEvmVars

\* getNFTBalances settles
NftSettle ==
  /\ "nfts" \notin settledClasses /\ networkResult = <<>>
  /\ nfts' = <<getNFTBalances(chain.nfts)>>
  /\ inspected' = [inspected EXCEPT !.nfts =
                     IF chain.nfts.listing = "ok"
                       THEN Len(Sliced(chain.nfts, NftLimit)) ELSE 0]
  /\ settledClasses' = settledClasses \cup {"nfts"}
  /\ UNCHANGED <<chain, native, erc20, networkResult>>
  /\ UNCHANGED notEvmVars

\* Promise.all resolves: results[key] = {...}
Assemble ==
  /\ settledClasses = {"native", "erc20", "nfts"} /\ networkResult = <<>>
  /\ networkResult' = <<NetworkEntry(native[1], erc20[1], nfts[1])>>
  /\ UNCHANGED <<chain, settledClasses, native, erc20, nfts, inspected>>
  /\ UNCHANGED notEvmVars

EvmNext == NativeSettle \/ Erc20Settle \/ NftSettle \/ Assemble

EvmSpec == EvmInit /\ [][EvmNext]_vars

(* ------------- main and removeDuplicates (filterWallets.js) ----------- *)
\* longest input.wallets handed to the filter
MaxRecords == 3

\* wallet.mnemonic of an imported account (null)
NoMnemonic == "null"

\* wallet.mnemonic values: none, or the seed phrase of the vault
Mnemonics == {NoMnemonic, "seed"}

\* addresses in the filter input: two spellings of one address and another
FilterAddresses == {"a1", "A1", "b2"}

\* the accounts of the scan results: an address and the mnemonic copied
\* from its vault; a1 is derived from the seed phrase of one profile, the
\* other spelling and b2 are imported keys
FilterAccounts ==
  {acct \in [address : FilterAddresses, mnemonic : Mnemonics] :
     acct.mnemonic # NoMnemonic <=> acct.address = "a1"}

\* wallet.balances, <<>> or <<object>>: undefined
NoBalances == <<>>

\* wallet.balances of one chain: the native quantity, the quantity of each
\* listed token and the count of each listed collectible; the fetchers list
\* a token or a collectible only when its quantity is positive
ZeroBalances == <<[native |-> 0, tokens |-> <<>>, nfts |-> <<>>]>>
NativeHeld == <<[native |-> 1, tokens |-> <<>>, nfts |-> <<>>]>>
TokenHeld == <<[native |-> 0, tokens |-> <<1>>, nfts |-> <<>>]>>
NftHeld == <<[native |-> 0, tokens |-> <<>>, nfts |-> <<1>>]>>

\* balances of a wallet whose totalUSD is 0: nothing fetched, nothing held,
\* or holdings the oracle had no price for
UnpricedBalances == {NoBalances, ZeroBalances, NativeHeld, TokenHeld, NftHeld}

\* totalUSD and balances of one wallet of the scan results
FilterSnapshots ==
  [totalUSD : {0}, balances : UnpricedBalances]
    \cup [totalUSD : 1..MaxUSD, balances : {NativeHeld}]

\* wallet records of the scan results, as far as the filter reads them
FilterRecords ==
  {[address |-> acct.address, mnemonic |-> acct.mnemonic,
    totalUSD |-> snap.totalUSD, balances |-> snap.balances] :
     acct \in FilterAccounts, snap \in FilterSnapshots}

\* the objects of input.wallets: position tells apart two objects with
\* equal properties
Positioned(records) ==
  [k \in 1..Len(records) |->
     [address |-> records[k].address, mnemonic |-> records[k].mnemonic,
      totalUSD |-> records[k].totalUSD, balances |-> records[k].balances,
      position |-> k]]

\* the lists of wallets the filter reads
FilterInputs ==
  {Positioned(records) :
     records \in UNION {[1..n -> FilterRecords] : n \in 0..MaxRecords}}

\* variant: every wallet that has a balances object passes
hasBalanceDefined(wallet) ==
  IF OrZero(wallet.totalUSD) > 0 THEN TRUE
  ELSE wallet.balances # NoBalances

\* hasBalance(wallet): hasBalanceEVM over one network, hasBalanceSolana
hasBalance(wallet) ==
  IF OrZero(wallet.totalUSD) > 0 THEN TRUE
  ELSE IF wallet.balances = NoBalances THEN FALSE
  ELSE \/ wallet.balances[1].native > 0
       \/ \E t \in 1..Len(wallet.balances[1].tokens) :
            wallet.balances[1].tokens[t] > 0
       \/ Len(wallet.balances[1].nfts) > 0

\* variant: walletMap.has(key) is never true
MapIndexNever(map, key) == 0

\* position of key in walletMap, 0 when !walletMap.has(key)
MapIndex(map, key) ==
  IF \E k \in 1..Len(map) : map[k].key = key
    THEN CHOOSE k \in 1..Len(map) : map[k].key = key
    ELSE 0

\* the duplicate replaces the entry: it has a mnemonic and the entry has
\* none, or else its totalUSD is higher
Replaces(wallet, existing) ==
  IF wallet.mnemonic # NoMnemonic /\ existing.mnemonic = NoMnemonic THEN TRUE
  ELSE wallet.totalUSD > existing.totalUSD

\* variant: the map holds the wallet of the last round only
MapAfterLatestOnly(map, wallet) ==
  <<[key |-> toLowerCase(wallet.address), value |-> wallet]>>

\* walletMap after the loop body has run for wallet
MapAfter(map, wallet) ==
  LET key == toLowerCase(wallet.address)
      at == MapIndex(map, key)
  IN  IF at = 0 THEN Append(map, [key |-> key, value |-> wallet])
      ELSE IF Replaces(wallet, map[at].value)
        THEN [map EXCEPT ![at] = [key |-> key, value |-> wallet]]
        ELSE map

\* one insertion of the stable sort by (b.totalUSD || 0) - (a.totalUSD || 0):
\* wallet goes behind every element that does not compare after it
InsertByTotal(sorted, wallet) ==
  LET ahead == Cardinality({k \in 1..Len(sorted) :
                  OrZero(sorted[k].totalUSD) >= OrZero(wallet.totalUSD)})
  IN  SubSeq(sorted, 1, ahead) \o <<wallet>>
        \o SubSeq(sorted, ahead + 1, Len(sorted))

RECURSIVE SortedByTotal(_)
\* unique.sort((a, b) => (b.totalUSD || 0) - (a.totalUSD || 0))
SortedByTotal(ws) ==
  IF ws = <<>> THEN <<>>
  ELSE InsertByTotal(SortedByTotal(SubSeq(ws, 1, Len(ws) - 1)), ws[Len(ws)])

\* formatWallet(wallet, index): the properties of the output record
formatWallet(wallet, index) ==
  [walletNumber |-> index + 1, address |-> wallet.address,
   totalUSD |-> OrZero(wallet.totalUSD), mnemonic |-> wallet.mnemonic,
   position |-> wallet.position]

\* the output object built from the sorted array
OutputOf(sorted) ==
  [walletsWithBalance |-> Len(sorted),
   totalPortfolioUSD |-> SumUSD(sorted),
   wallets |-> [k \in 1..Len(sorted) |-> formatWallet(sorted[k], k - 1)]]

notFilterVars == <<scanVars, retryVars, priceVars, evmVars, scriptVars>>

\* the filter's main() has read and parsed INPUT_FILE
FilterInit ==
  /\ ScanAtRest /\ RetryAtRest /\ PriceAtRest /\ EvmAtRest /\ ScriptsAtRest
  /\ inputWallets \in FilterInputs
  /\ filterPc = "read"
  /\ output = <<>>
  /\ filtered = <<>>
  /\ dedupPc = "idle"
  /\ dedupIdx = 0
  /\ walletMap = <<>>
  /\ unique = <<>>

\* input.wallets.length === 0: process.exit(0)
FilterNoWallets ==
  /\ filterPc = "read"
  /\ Len(inputWallets) = 0
  /\ filterPc' = "exit"
  /\ UNCHANGED <<inputWallets, output, filtered, dedupPc, dedupIdx, walletMap,
                 unique>>
  /\ UNCHANGED notFilterVars

\* filtered = input.wallets.filter(hasBalance); process.exit(0) when it is
\* empty, else removeDuplicates(filtered) is called
FilterSelect ==
  /\ filterPc = "read"
  /\ Len(inputWallets) > 0
  /\ filtered' = SelectSeq(inputWallets, hasBalance)
  /\ IF filtered' = <<>>
       THEN filterPc' = "exit" /\ dedupPc' = dedupPc
       ELSE filterPc' = "dedup" /\ dedupPc' = "loop"
  /\ UNCHANGED <<inputWallets, output, dedupIdx, walletMap, unique>>
  /\ UNCHANGED notFilterVars

\* one round of for (const wallet of wallets)
DedupStep ==
  /\ dedupPc = "loop"
  /\ dedupIdx < Len(filtered)
  /\ walletMap' = MapAfter(walletMap, filtered[dedupIdx + 1])
  /\ dedupIdx' = dedupIdx + 1
  /\ UNCHANGED <<inputWallets, filterPc, output, filtered, dedupPc, unique>>
  /\ UNCHANGED notFilterVars

\* return Array.from(walletMap.values())
DedupReturn ==
  /\ dedupPc = "loop"
  /\ dedupIdx = Len(filtered)
  /\ unique' = [k \in 1..Len(walletMap) |-> walletMap[k].value]
  /\ dedupPc' = "done"
  /\ UNCHANGED <<inputWallets, filterPc, output, filtered, dedupIdx,
                 walletMap>>
  /\ UNCHANGED notFilterVars

\* unique.sort(...), the output object, writeFile(OUTPUT_FILE)
SortAndWrite ==
  /\ filterPc = "dedup"
  /\ dedupPc = "done"
  /\ unique' = SortedByTotal(unique)
  /\ output' = <<OutputOf(unique')>>
  /\ filterPc' = "written"
  /\ UNCHANGED <<inputWallets, filtered, dedupPc, dedupIdx, walletMap>>
  /\ UNCHANGED notFilterVars

FilterNext ==
  FilterNoWallets \/ FilterSelect \/ DedupStep \/ DedupReturn \/ SortAndWrite

FilterSpec == FilterInit /\ [][FilterNext]_vars

(* ----- key derivation (walletScanner.js, exportSolanaWithSPL.js) ------ *)
\* most calls of the derivation functions in one behaviour
MaxCalls == 3

\* highest account index derived
MaxIndex == 1

\* coin types of the derivation paths m/44'/60'/0'/0/i and m/44'/501'/i'/0'
EvmCoin == 60
SolanaCoin == 501

\* decrypted seed phrases: two phrases with a good checksum and a text
\* that is no phrase
Phrases == {"seedA", "seedB", "not a phrase"}

\* bip39.validateMnemonic(mnemonic)
validateMnemonic(mnemonic) == mnemonic \in {"seedA", "seedB"}

\* bip39.mnemonicToSeedSync(mnemonic, ''): the binary seed, as a number
mnemonicToSeedSync(mnemonic) == IF mnemonic = "seedA" THEN 1 ELSE 2

\* derivePath(path, seed).key: the child secret of a seed under the path
\* of a coin type and an account index; different inputs, different secrets
derivePath(coin, index, seed) == coin * 100 + seed * 10 + index

\* raw private keys a vault holds for imported accounts: the secret of the
\* first account of seedA, and one that no phrase derives
RawKeys == {derivePath(EvmCoin, 0, 1), 7}

\* raw key material that new ethers.Wallet(pk) rejects
BadKey == 0

\* an address: its text, whether the text starts with '0x', its length
HexAddress(secret) == [text |-> secret, hex |-> TRUE, length |-> 42]
Base58Address(secret) == [text |-> secret, hex |-> FALSE, length |-> 44]

\* what a derivation call gives when it throws
Thrown(message) == [threw |-> TRUE, message |-> message]

\* variant: the keypair is made from the calls made so far, not the seed
KeypairFromCalls(derivedSeed) ==
  [threw |-> FALSE, publicKey |-> Base58Address(derivedSeed + Len(derivations)),
   privateKey |-> derivedSeed + Len(derivations)]

\* Keypair.fromSeed(derivedSeed), publicKey.toBase58(), bs58.encode(secretKey)
KeypairFromSeed(derivedSeed) ==
  [threw |-> FALSE, publicKey |-> Base58Address(derivedSeed),
   privateKey |-> derivedSeed]

\* deriveSolanaKeypairFromMnemonic(mnemonic, accountIndex)
deriveSolanaKeypairFromMnemonic(mnemonic, accountIndex) ==
  IF ~validateMnemonic(mnemonic) THEN Thrown("Invalid mnemonic")
  ELSE KeypairFromSeed(
         derivePath(SolanaCoin, accountIndex, mnemonicToSeedSync(mnemonic)))

\* ethers.HDNodeWallet.fromPhrase(mnemonic, undefined, m/44'/60'/0'/0/i):
\* the wallet's address and privateKey
fromPhrase(mnemonic, index) ==
  IF ~validateMnemonic(mnemonic) THEN Thrown("invalid mnemonic")
  ELSE LET secret == derivePath(EvmCoin, index, mnemonicToSeedSync(mnemonic))
       IN  [threw |-> FALSE, publicKey |-> HexAddress(secret),
            privateKey |-> secret]

\* new ethers.Wallet(pk): the wallet's address and privateKey
WalletOfKey(pk) ==
  IF pk = BadKey THEN Thrown("invalid private key")
  ELSE [threw |-> FALSE, publicKey |-> HexAddress(pk), privateKey |-> pk]

\* the calls of the derivation functions: function and arguments
DeriveCalls ==
  [fn : {"deriveSolanaKeypairFromMnemonic", "fromPhrase"},
   mnemonic : Phrases, index : 0..MaxIndex]
    \cup [fn : {"Wallet"}, pk : RawKeys \cup {BadKey}]

\* what a call returns or throws
DeriveResult(call) ==
  CASE call.fn = "deriveSolanaKeypairFromMnemonic" ->
         deriveSolanaKeypairFromMnemonic(call.mnemonic, call.index)
    [] call.fn = "fromPhrase" -> fromPhrase(call.mnemonic, call.index)
    [] call.fn = "Wallet" -> WalletOfKey(call.pk)

notDeriveVars ==
  <<scanVars, retryVars, priceVars, evmVars, filterVars, walletScanVars,
    exportVars, valueVars, queryVars>>

\* no derivation function has been called yet
DeriveInit ==
  /\ ScanAtRest /\ RetryAtRest /\ PriceAtRest /\ EvmAtRest /\ FilterAtRest
  /\ WalletScanAtRest /\ ExportAtRest /\ ValueAtRest /\ QueryAtRest
  /\ derivations = <<>>

\* one call of a derivation function
DeriveCall(call) ==
  /\ Len(derivations) < MaxCalls
  /\ derivations' = Append(derivations, [call |-> call, result |-> DeriveResult(call)])
  /\ UNCHANGED notDeriveVars

DeriveNext == \E call \in DeriveCalls : DeriveCall(call)

DeriveSpec == DeriveInit /\ [][DeriveNext]_vars

(* -------- scanAllWallets (walletScanner.js of both families) ---------- *)
\* most profiles getBrowserProfilePaths returns
MaxProfiles == 2

\* most account records (Phantom) or keyrings (MetaMask) in one vault
MaxAccounts == 2

\* privateKey: null
NoSecret == -1

\* account.publicKey or account.chains.solana.publicKey is undefined
NoKey == [text |-> 0, hex |-> FALSE, length |-> 0]

\* public keys in the records of a Phantom vault: two base58 addresses of
\* 44 and 32 characters, one of 31 and one of 45, a hex address, none
VaultKeys ==
  {Base58Address(derivePath(SolanaCoin, 0, 1)),
   [text |-> 8, hex |-> FALSE, length |-> 32],
   [text |-> 9, hex |-> FALSE, length |-> 31],
   [text |-> 9, hex |-> FALSE, length |-> 45],
   HexAddress(derivePath(EvmCoin, 0, 1)),
   NoKey}

\* the records of '.phantom-labs.vault.accounts': type, the chain family
\* (chainType of a privateKey record; "solana" for a seed record that has
\* chains.solana) and the public key of that family
VaultAccounts ==
  [type : {"seed", "privateKey"}, chain : {"solana"}, publicKey : VaultKeys]
    \cup [type : {"privateKey"}, chain : {"eip155"},
          publicKey : {HexAddress(derivePath(EvmCoin, 0, 1)),
                       Base58Address(derivePath(SolanaCoin, 0, 1))}]
    \cup {[type |-> "seed", chain |-> "eip155",
           publicKey |-> HexAddress(derivePath(EvmCoin, 0, 1))],
          [type |-> "ledger", chain |-> "solana",
           publicKey |-> Base58Address(derivePath(SolanaCoin, 0, 1))]}

\* variant: the address test looks at the length only
IsSolanaAddressByLength(publicKey) ==
  publicKey.length >= 32 /\ publicKey.length <= 44

\* publicKey && !publicKey.startsWith('0x') && length >= 32 && length <= 44
IsSolanaAddress(publicKey) ==
  /\ publicKey.length > 0
  /\ ~publicKey.hex
  /\ publicKey.length >= 32 /\ publicKey.length <= 44

\* the branch of the loop body that reads the record's public key
ReadsKey(account) ==
  \/ account.type = "seed" /\ account.chain = "solana"
  \/ account.type = "privateKey" /\ account.chain = "solana"

\* the object pushed for a record of the Phantom vault
ExtractedWallet(account, accountIndex) ==
  [type |-> IF account.type = "seed" THEN "HD Wallet" ELSE "Imported Account",
   address |-> account.publicKey, index |-> accountIndex,
   privateKey |-> NoSecret, mnemonic |-> NoMnemonic]

\* variant: seenAddresses.has(publicKey) is never true
HasSeenNever(seenAddresses, publicKey) == FALSE

\* seenAddresses.has(publicKey)
HasSeen(seenAddresses, publicKey) == publicKey \in seenAddresses

RECURSIVE ExtractLoop(_, _)
\* wallets and seenAddresses after n rounds of the loop over accounts
ExtractLoop(accounts, n) ==
  IF n = 0 THEN [wallets |-> <<>>, seenAddresses |-> {}]
  ELSE LET before == ExtractLoop(accounts, n - 1)
           account == accounts[n]
       IN  IF /\ ReadsKey(account)
              /\ IsSolanaAddress(account.publicKey)
              /\ ~HasSeen(before.seenAddresses, account.publicKey)
             THEN [wallets |-> Append(before.wallets,
                                      ExtractedWallet(account, n - 1)),
                   seenAddresses |->
                     before.seenAddresses \cup {account.publicKey}]
             ELSE before

\* extractWalletAddresses(walletData, password) of the Phantom scanner;
\* walletData.accounts is <<>> when the vault has no accounts key
extractWalletAddresses(walletData) ==
  IF walletData.accounts = <<>> THEN <<>>
  ELSE ExtractLoop(walletData.accounts[1], Len(walletData.accounts[1])).wallets

\* the data arrays of Simple Key Pair keyrings
KeyLists ==
  {<<>>, <<7>>, <<derivePath(EvmCoin, 0, 1)>>, <<BadKey, 7>>,
   <<7, derivePath(EvmCoin, 0, 1)>>}

\* the keyrings of a decrypted MetaMask vault
Keyrings ==
  [type : {"HD Key Tree"}, mnemonic : Phrases,
   numberOfAccounts : 1..(MaxIndex + 1)]
    \cup [type : {"Simple Key Pair"}, data : KeyLists]
    \cup {[type |-> "Ledger Hardware"]}

\* the addresses pushed for an HD Key Tree keyring: none when fromPhrase
\* throws
HdAddresses(keyring) ==
  IF fromPhrase(keyring.mnemonic, 0).threw THEN <<>>
  ELSE [k \in 1..keyring.numberOfAccounts |->
          LET wallet == fromPhrase(keyring.mnemonic, k - 1)
          IN  [type |-> "HD Wallet", address |-> wallet.publicKey,
               index |-> k - 1, privateKey |-> wallet.privateKey,
               mnemonic |-> keyring.mnemonic]]

RECURSIVE ImportedAddresses(_, _)
\* the addresses pushed by the first n rounds of privateKeys.forEach
ImportedAddresses(privateKeys, n) ==
  IF n = 0 THEN <<>>
  ELSE LET before == ImportedAddresses(privateKeys, n - 1)
           wallet == WalletOfKey(privateKeys[n])
       IN  IF wallet.threw THEN before
           ELSE Append(before,
                  [type |-> "Imported Account", address |-> wallet.publicKey,
                   index |-> n, privateKey |-> privateKeys[n],
                   mnemonic |-> NoMnemonic])

\* the console.error lines of one keyring
KeyringErrors(keyring) ==
  IF keyring.type = "HD Key Tree"
    THEN IF fromPhrase(keyring.mnemonic, 0).threw
           THEN <<"Error deriving addresses from mnemonic">> ELSE <<>>
  ELSE IF keyring.type = "Simple Key Pair"
    THEN [k \in 1..Cardinality({n \in 1..Len(keyring.data) :
                                  WalletOfKey(keyring.data[n]).threw}) |->
            "Error deriving address from private key"]
  ELSE <<>>

\* the addresses pushed for one keyring
KeyringAddresses(keyring) ==
  IF keyring.type = "HD Key Tree" THEN HdAddresses(keyring)
  ELSE IF keyring.type = "Simple Key Pair"
    THEN ImportedAddresses(keyring.data, Len(keyring.data))
  ELSE <<>>

RECURSIVE extractWalletAddressesEvm(_)
\* extractWalletAddresses(decryptedVault) of the MetaMask scanner, with the
\* lines it logs
extractWalletAddressesEvm(decryptedVault) ==
  IF decryptedVault = <<>> THEN [wallets |-> <<>>, errors |-> <<>>]
  ELSE LET n == Len(decryptedVault)
           before == extractWalletAddressesEvm(SubSeq(decryptedVault, 1, n - 1))
       IN  [wallets |-> before.wallets \o KeyringAddresses(decryptedVault[n]),
            errors |-> before.errors \o KeyringErrors(decryptedVault[n])]

\* the contents of a Phantom store: lists of account records
PhantomVaults ==
  {[accounts |-> <<accounts>>] :
     accounts \in UNION {[1..n -> VaultAccounts] : n \in 0..MaxAccounts}}
    \cup {[accounts |-> <<>>]}

\* the contents of a MetaMask store: lists of keyrings; the extension
\* refuses to add an account that the vault already has
MetaMaskVaults ==
  {decryptedVault \in UNION {[1..n -> Keyrings] : n \in 0..MaxAccounts} :
     LET held == extractWalletAddressesEvm(decryptedVault).wallets
     IN  \A m, n \in 1..Len(held) : held[m].address = held[n].address => m = n}

\* stores of the profiles of a browser that is used with several profiles:
\* the same seed phrase or imported key in more than one of them
SharedPhantomVaults ==
  {[accounts |-> <<accounts>>] :
     accounts \in
       {<<[type |-> "seed", chain |-> "solana",
           publicKey |-> Base58Address(derivePath(SolanaCoin, 0, 1))]>>,
        <<[type |-> "privateKey", chain |-> "solana",
           publicKey |-> [text |-> 8, hex |-> FALSE, length |-> 32]],
          [type |-> "seed", chain |-> "solana",
           publicKey |-> Base58Address(derivePath(SolanaCoin, 0, 1))]>>}}

SharedMetaMaskVaults ==
  {<<[type |-> "HD Key Tree", mnemonic |-> "seedA", numberOfAccounts |-> 1]>>,
   <<[type |-> "HD Key Tree", mnemonic |-> "seedB", numberOfAccounts |-> 1],
     [type |-> "Simple Key Pair", data |-> <<7>>]>>}

\* one profile: how reading its store ends ("ok", "throws", or "none" for
\* a store without wallet data), whether decrypt accepts the password for
\* it, and the store's contents
ProfilesOf(vaults) ==
  [store : {"ok", "throws", "none"}, decrypts : BOOLEAN, content : vaults]

\* the profiles of one scan: one profile with any vault, or several profiles
\* with vaults that share accounts
ProfileLists(vaults, shared) ==
  {<<profile>> : profile \in ProfilesOf(vaults)}
    \cup UNION {[1..n -> ProfilesOf(shared)] : n \in 0..MaxProfiles}

\* profile.name of the k-th profile
ProfileNames == <<"Default", "Profile 1", "Profile 2", "Profile 3">>

\* what one round of the loop over profiles finds: the addresses and the
\* console.error lines
ProfileResult(family, profile) ==
  IF profile.store = "throws"
    THEN [wallets |-> <<>>, errors |-> <<"Error reading vault data">>]
  ELSE IF profile.store = "none" THEN [wallets |-> <<>>, errors |-> <<>>]
  ELSE IF family = "solana"
    THEN [wallets |-> extractWalletAddresses(profile.content), errors |-> <<>>]
  ELSE IF ~profile.decrypts
    THEN [wallets |-> <<>>, errors |-> <<"Error decrypting vault">>]
  ELSE extractWalletAddressesEvm(profile.content)

\* the objects pushed to allWallets for one profile: {profile, ...addr}
Tagged(name, list) ==
  [k \in 1..Len(list) |->
     [profile |-> name, type |-> list[k].type, address |-> list[k].address,
      index |-> list[k].index, privateKey |-> list[k].privateKey,
      mnemonic |-> list[k].mnemonic]]

\* variant: the list is started again for every profile
AfterProfileLatest(all, name, result) == Tagged(name, result.wallets)

\* allWallets after the round of one profile
AfterProfile(all, name, result) == all \o Tagged(name, result.wallets)

notWalletScanVars ==
  <<scanVars, retryVars, priceVars, evmVars, filterVars, deriveVars,
    exportVars, valueVars, queryVars>>

\* scanAllWallets has been called and getBrowserProfilePaths has returned
WalletScanInit ==
  /\ ScanAtRest /\ RetryAtRest /\ PriceAtRest /\ EvmAtRest /\ FilterAtRest
  /\ DeriveAtRest /\ ExportAtRest /\ ValueAtRest /\ QueryAtRest
  /\ scanFamily \in {"evm", "solana"}
  /\ scanProfiles \in IF scanFamily = "solana"
                        THEN ProfileLists(PhantomVaults, SharedPhantomVaults)
                        ELSE ProfileLists(MetaMaskVaults, SharedMetaMaskVaults)
  /\ scanIdx = 0
  /\ allWallets = <<>>
  /\ scanErrors = <<>>
  /\ scanPc = "start"

\* profiles.length === 0: return []
WalletScanNoProfiles ==
  /\ scanPc = "start"
  /\ Len(scanProfiles) = 0
  /\ scanPc' = "done"
  /\ UNCHANGED <<scanFamily, scanProfiles, scanIdx, allWallets, scanErrors>>
  /\ UNCHANGED notWalletScanVars

\* one round of for (const profile of profiles)
WalletScanProfile ==
  /\ scanPc \in {"start", "loop"}
  /\ scanIdx < Len(scanProfiles)
  /\ LET name == ProfileNames[scanIdx + 1]
         result == ProfileResult(scanFamily, scanProfiles[scanIdx + 1])
     IN  /\ allWallets' = AfterProfile(allWallets, name, result)
         /\ scanErrors' = scanErrors \o
              [k \in 1..Len(result.errors) |->
                 [profile |-> name, message |-> result.errors[k]]]
  /\ scanIdx' = scanIdx + 1
  /\ scanPc' = "loop"
  /\ UNCHANGED <<scanFamily, scanProfiles>>
  /\ UNCHANGED notWalletScanVars

\* return allWallets
WalletScanReturn ==
  /\ scanPc = "loop"
  /\ scanIdx = Len(scanProfiles)
  /\ scanPc' = "done"
  /\ UNCHANGED <<scanFamily, scanProfiles, scanIdx, allWallets, scanErrors>>
  /\ UNCHANGED notWalletScanVars

WalletScanNext == WalletScanNoProfiles \/ WalletScanProfile \/ WalletScanReturn

WalletScanSpec == WalletScanInit /\ [][WalletScanNext]_vars

(* ---------------- main() of exportSolanaWithSPL.js -------------------- *)
\* most wallets with SPL tokens in INPUT_FILE
MaxTargets == 2

\* the wallets of INPUT_FILE that hold SPL tokens, as far as main() reads
\* them
TargetWallets ==
  {[address |-> "a1", totalUSD |-> 0], [address |-> "A1", totalUSD |-> 1],
   [address |-> "b2", totalUSD |-> 1]}

\* the encrypted blob of a seed or a private key in walletData: whether
\* decrypt accepts the password for it, and its plaintext
Blobs(plaintexts) == [decrypts : BOOLEAN, plaintext : plaintexts]

\* the Solana records of '.phantom-labs.vault.accounts' with the blob that
\* walletData holds under the record's identifier, <<>> when it holds none:
\* a1 is derived from seedA, A1 and b2 are imported keys
CredentialRecords ==
  {[type |-> "seed", publicKey |-> "a1", derivationIndex |-> 0, blob |-> blob] :
     blob \in {<<>>} \cup {<<b>> : b \in Blobs({"seedA", "not a phrase"})}}
    \cup {[type |-> "privateKey", publicKey |-> "A1", derivationIndex |-> 0,
           blob |-> blob] :
            blob \in {<<>>} \cup {<<b>> : b \in Blobs({7, BadKey})}}
    \cup {[type |-> "privateKey", publicKey |-> "b2", derivationIndex |-> 0,
           blob |-> blob] :
            blob \in {<<>>} \cup {<<b>> : b \in Blobs({8, BadKey})}}

\* Keypair.fromSecretKey(privateKeyBytes), bs58.encode(keypair.secretKey)
fromSecretKey(privateKeyHex) ==
  IF privateKeyHex = BadKey THEN Thrown("bad secret key size")
  ELSE [threw |-> FALSE, privateKey |-> privateKeyHex]

\* the value set for one record whose blob was decrypted
CredentialOf(account, plaintext) ==
  IF account.type = "seed"
    THEN [address |-> account.publicKey, type |-> "HD Wallet",
          mnemonic |-> plaintext,
          privateKey |-> deriveSolanaKeypairFromMnemonic(
                           plaintext, account.derivationIndex).privateKey]
    ELSE [address |-> account.publicKey, type |-> "Imported Account",
          mnemonic |-> NoMnemonic,
          privateKey |-> fromSecretKey(plaintext).privateKey]

\* the try block of one record ends with walletCredentials.set
Resolves(account) ==
  /\ account.blob # <<>>
  /\ account.blob[1].decrypts
  /\ IF account.type = "seed"
       THEN ~deriveSolanaKeypairFromMnemonic(
               account.blob[1].plaintext, account.derivationIndex).threw
       ELSE ~fromSecretKey(account.blob[1].plaintext).threw

\* map.set(key, value) on a Map kept as its entries in insertion order
MapSet(map, key, value) ==
  IF MapIndex(map, key) = 0 THEN Append(map, [key |-> key, value |-> value])
  ELSE [map EXCEPT ![MapIndex(map, key)] = [key |-> key, value |-> value]]

\* map.get(key): <<>> (undefined) or <<value>>
MapGet(map, key) ==
  IF MapIndex(map, key) = 0 THEN <<>> ELSE <<map[MapIndex(map, key)].value>>

RECURSIVE CredentialLoop(_, _, _)
\* walletCredentials after n rounds of the loop over accounts
CredentialLoop(accounts, targetAddresses, n) ==
  IF n = 0 THEN <<>>
  ELSE LET before == CredentialLoop(accounts, targetAddresses, n - 1)
           account == accounts[n]
       IN  IF /\ toLowerCase(account.publicKey) \in targetAddresses
              /\ Resolves(account)
             THEN MapSet(before, toLowerCase(account.publicKey),
                         CredentialOf(account, account.blob[1].plaintext))
             ELSE before

\* extractWalletCredentials(walletData, password, targetAddresses)
extractWalletCredentials(accounts, targetAddresses) ==
  CredentialLoop(accounts, targetAddresses, Len(accounts))

RECURSIVE Merged(_, _, _)
\* allCredentials after the first n entries of credentials were merged
Merged(all, credentials, n) ==
  IF n = 0 THEN all
  ELSE MapSet(Merged(all, credentials, n - 1), credentials[n].key,
              credentials[n].value)

\* new Set(walletsWithSPL.map(w => w.address.toLowerCase()))
TargetAddresses(withSPL) ==
  {toLowerCase(withSPL[k].address) : k \in 1..Len(withSPL)}

\* exportWallet of one wallet: the credentials or the note
ExportWallet(wallet, credentials) ==
  IF credentials # <<>>
    THEN [address |-> wallet.address, totalUSD |-> OrZero(wallet.totalUSD),
          mnemonic |-> credentials[1].mnemonic,
          privateKey |-> credentials[1].privateKey, note |-> FALSE]
    ELSE [address |-> wallet.address, totalUSD |-> OrZero(wallet.totalUSD),
          mnemonic |-> NoMnemonic, privateKey |-> NoSecret, note |-> TRUE]

\* the stores of the profiles: one profile with any vault, or several
\* profiles of which one holds what another holds
CredentialVaults ==
  UNION {[1..n -> CredentialRecords] : n \in 0..MaxAccounts}

SharedCredentialVaults ==
  {<<[type |-> "seed", publicKey |-> "a1", derivationIndex |-> 0,
      blob |-> <<[decrypts |-> TRUE, plaintext |-> "seedA"]>>]>>,
   <<[type |-> "seed", publicKey |-> "a1", derivationIndex |-> 0,
      blob |-> <<[decrypts |-> FALSE, plaintext |-> "seedA"]>>],
     [type |-> "privateKey", publicKey |-> "b2", derivationIndex |-> 0,
      blob |-> <<[decrypts |-> TRUE, plaintext |-> 8]>>]>>}

\* one profile: how readPhantomVault ends, and the accounts of the store
ExportProfilesOf(vaults) == [store : {"ok", "throws"}, accounts : vaults]

ExportProfileLists ==
  {<<profile>> : profile \in ExportProfilesOf(CredentialVaults)}
    \cup UNION {[1..n -> ExportProfilesOf(SharedCredentialVaults)] :
                  n \in 0..MaxProfiles}

notExportVars ==
  <<scanVars, retryVars, priceVars, evmVars, filterVars, deriveVars,
    walletScanVars, valueVars, queryVars>>

\* main() has read INPUT_FILE, found wallets with SPL tokens and called
\* getBrowserProfilePaths
ExportInit ==
  /\ ScanAtRest /\ RetryAtRest /\ PriceAtRest /\ EvmAtRest /\ FilterAtRest
  /\ DeriveAtRest /\ WalletScanAtRest /\ ValueAtRest /\ QueryAtRest
  /\ walletsWithSPL \in UNION {[1..n -> TargetWallets] : n \in 1..MaxTargets}
  /\ exportProfiles \in ExportProfileLists
  /\ exportIdx = 0
  /\ allCredentials = <<>>
  /\ exportWallets = <<>>
  /\ exportPc = "profiles"

\* profiles.length === 0: process.exit(1)
ExportNoProfiles ==
  /\ exportPc = "profiles"
  /\ Len(exportProfiles) = 0
  /\ exportPc' = "exit"
  /\ UNCHANGED <<walletsWithSPL, exportProfiles, exportIdx, allCredentials,
                 exportWallets>>
  /\ UNCHANGED notExportVars

\* one round of for (const profile of profiles)
ExportProfile ==
  /\ exportPc \in {"profiles", "loop"}
  /\ exportIdx < Len(exportProfiles)
  /\ LET profile == exportProfiles[exportIdx + 1]
         credentials ==
           IF profile.store = "throws" THEN <<>>
           ELSE extractWalletCredentials(profile.accounts,
                                         TargetAddresses(walletsWithSPL))
     IN  allCredentials' = Merged(allCredentials, credentials, Len(credentials))
  /\ exportIdx' = exportIdx + 1
  /\ exportPc' = "loop"
  /\ UNCHANGED <<walletsWithSPL, exportProfiles, exportWallets>>
  /\ UNCHANGED notExportVars

\* the loop over walletsWithSPL, exportWallets.sort, writeFile(OUTPUT_FILE)
ExportWrite ==
  /\ exportPc = "loop"
  /\ exportIdx = Len(exportProfiles)
  /\ exportWallets' =
       SortedByTotal(
         [k \in 1..Len(walletsWithSPL) |->
            ExportWallet(walletsWithSPL[k],
                         MapGet(allCredentials,
                                toLowerCase(walletsWithSPL[k].address)))])
  /\ exportPc' = "written"
  /\ UNCHANGED <<walletsWithSPL, exportProfiles, exportIdx, allCredentials>>
  /\ UNCHANGED notExportVars

ExportNext == ExportNoProfiles \/ ExportProfile \/ ExportWrite

ExportSpec == ExportInit /\ [][ExportNext]_vars

(* ------------- calculateUSDValue (both balanceFetcher.js) ------------- *)
\* largest balance of a component, in whole coins
MaxUnits == 2

\* largest price the oracle quotes
MaxQuote == 1

\* NETWORKS, in the order of Object.entries: key and coingeckoId of the
\* first three networks (Base is priced as Ethereum)
Networks ==
  <<[key |-> "ethereum", coingeckoId |-> "ethereum"],
    [key |-> "bsc", coingeckoId |-> "binancecoin"],
    [key |-> "base", coingeckoId |-> "ethereum"]>>

\* the identifiers fetchPrices asks for
NetworkIds == {Networks[n].coingeckoId : n \in 1..Len(Networks)}

\* what fetchPrices() returns: per identifier no entry (NoUSD), an entry
\* without a usd price (0), or an entry with its usd price
EvmQuotes == [NetworkIds -> {NoUSD} \cup (0..MaxQuote)]

\* what fetchTokenPrices(ids) returns: per identifier the price, or 0
SolanaQuotes == [PriceIds -> 0..MaxQuote]

\* a token as getERC20Balances lists it: no price identifier, no usd
Erc20Token == [coingeckoId |-> "none", balance |-> 1, usd |-> NoUSD]

\* results[key] of the network loop: native as getNativeBalance returns it
\* (balance is a string, '0' included, hence truthy), and the tokens
NetworkEntries ==
  [native : [balance : 0..MaxUnits, usd : {NoUSD}],
   erc20Tokens : {<<>>, <<Erc20Token>>}]

\* the tokens the chain lists for an address: a known one (BONK) or one
\* that is not in KNOWN_TOKENS, each with a positive balance
ListedTokens ==
  [coingeckoId : {"bonk", "none"}, balance : 1..MaxUnits, usd : {NoUSD}]

\* the token accounts of an address, in the order the node lists them
TokenLists == UNION {[1..n -> ListedTokens] : n \in 0..2}

\* token.usd = parseFloat(token.balance) * token.price for the tokens with
\* token.coingeckoId && prices[token.coingeckoId]
WithPrice(token, prices) ==
  IF token.coingeckoId # "none" /\ OrZero(prices[token.coingeckoId]) # 0
    THEN [token EXCEPT !.usd = token.balance * prices[token.coingeckoId]]
    ELSE token

\* the compare function of balances.sort is negative: a goes before b
SortsBefore(a, b) ==
  IF OrZero(a.usd) # 0 /\ OrZero(b.usd) # 0 THEN b.usd - a.usd < 0
  ELSE IF OrZero(a.usd) # 0 THEN TRUE
  ELSE IF OrZero(b.usd) # 0 THEN FALSE
  ELSE b.balance - a.balance < 0

RECURSIVE SortedByValue(_)
\* balances.sort(compare): a stable sort
SortedByValue(tokens) ==
  IF tokens = <<>> THEN <<>>
  ELSE LET rest == SortedByValue(SubSeq(tokens, 1, Len(tokens) - 1))
           last == tokens[Len(tokens)]
           ahead == {k \in 1..Len(rest) : ~SortsBefore(last, rest[k])}
           at == IF ahead = {} THEN 0 ELSE CHOOSE k \in ahead : \A j \in ahead : j <= k
       IN  SubSeq(rest, 1, at) \o <<last>> \o SubSeq(rest, at + 1, Len(rest))

\* getSPLTokenBalances(address): the listed tokens, priced and sorted
getSPLTokenBalances(listed, prices) ==
  SortedByValue([k \in 1..Len(listed) |-> WithPrice(listed[k], prices)])

RECURSIVE TokensUSD(_)
\* variant: the values of the SPL tokens are left out of the total
TokensUSDLeftOut(tokens) == 0

\* for (const token of balances.splTokens) if (token.usd) totalUSD += token.usd
TokensUSD(tokens) ==
  IF tokens = <<>> THEN 0
  ELSE TokensUSD(SubSeq(tokens, 1, Len(tokens) - 1))
         + OrZero(tokens[Len(tokens)].usd)

\* fetchSOLPrice(): prices['solana'] || 0
fetchSOLPrice(prices) == OrZero(prices["solana"])

\* calculateUSDValue(balances) of the Solana fetcher: balances with sol.usd
\* assigned (sol.balance is a string, hence truthy), and the total returned
calculateUSDValueSolana(balances, prices) ==
  LET solUSD == balances.sol.balance * fetchSOLPrice(prices)
  IN  [balances |-> [balances EXCEPT !.sol.usd = solUSD],
       totalUSD |-> solUSD + TokensUSD(balances.splTokens)]

RECURSIVE calculateUSDValueEvm(_, _, _)
\* calculateUSDValue(balances) of the EVM fetcher after the first n networks
\* of its for-of loop: balances with native.usd assigned, and totalUSD
calculateUSDValueEvm(balances, prices, n) ==
  IF n = 0 THEN [balances |-> balances, totalUSD |-> 0]
  ELSE LET before == calculateUSDValueEvm(balances, prices, n - 1)
           priceData == prices[Networks[n].coingeckoId]
           nativeUSD == balances[n].native.balance * OrZero(priceData)
       IN  IF priceData = NoUSD THEN before
           ELSE [balances |-> [before.balances EXCEPT ![n].native.usd = nativeUSD],
                 totalUSD |-> before.totalUSD + nativeUSD]

notValueVars ==
  <<scanVars, retryVars, priceVars, evmVars, filterVars, deriveVars,
    walletScanVars, exportVars, queryVars>>

\* fetchAllBalances(address) has queried the chain: the EVM one has filled
\* results for every network, the Solana one holds sol and the listed tokens
ValueInit ==
  /\ ScanAtRest /\ RetryAtRest /\ PriceAtRest /\ EvmAtRest /\ FilterAtRest
  /\ DeriveAtRest /\ WalletScanAtRest /\ ExportAtRest /\ QueryAtRest
  /\ valueFamily \in {"evm", "solana"}
  /\ IF valueFamily = "evm"
       THEN /\ fetched \in [1..Len(Networks) -> NetworkEntries]
            /\ quotes \in EvmQuotes
       ELSE /\ fetched \in [sol : [balance : 0..MaxUnits, usd : {NoUSD}],
                             splTokens : TokenLists]
            /\ quotes \in SolanaQuotes
  /\ snapshot = <<>>

\* the EVM fetchAllBalances: results.totalUSD = await calculateUSDValue(results)
EvmValue ==
  /\ valueFamily = "evm" /\ snapshot = <<>>
  /\ LET valued == calculateUSDValueEvm(fetched, quotes, Len(Networks))
     IN  snapshot' = <<[networks |-> valued.balances, totalUSD |-> valued.totalUSD]>>
  /\ UNCHANGED <<valueFamily, fetched, quotes>>
  /\ UNCHANGED notValueVars

\* the Solana fetchAllBalances from getSPLTokenBalances on: balances =
\* {sol, splTokens, nfts: []}; balances.totalUSD = await calculateUSDValue(balances)
SolanaValue ==
  /\ valueFamily = "solana" /\ snapshot = <<>>
  /\ LET balances == [sol |-> fetched.sol,
                      splTokens |-> getSPLTokenBalances(fetched.splTokens, quotes)]
         valued == calculateUSDValueSolana(balances, quotes)
     IN  snapshot' = <<[sol |-> valued.balances.sol,
                        splTokens |-> valued.balances.splTokens,
                        totalUSD |-> valued.totalUSD]>>
  /\ UNCHANGED <<valueFamily, fetched, quotes>>
  /\ UNCHANGED notValueVars

ValueNext == EvmValue \/ SolanaValue

ValueSpec == ValueInit /\ [][ValueNext]_vars

(* ------- the queries of main() and fetchAllBalances in flight --------- *)
\* accounts main() fetches in the run followed here
MaxQueried == 2

\* the calls of Promise.all in the EVM fetchAllBalances
AssetClasses == {"native", "erc20", "nfts"}

\* a call of an asset-class function for the account of iteration a
Query(a, class) == [account |-> a, class |-> class]

\* how a call of fetchPrices / fetchTokenPrices ends: answered from
\* priceCache (possible once it was written), priceCache assigned from the
\* oracle's answer, or the request failed
PriceOutcomes(writes) ==
  {"written", "failed"} \cup (IF writes = <<>> THEN {} ELSE {"cached"})

\* priceCache after the call: an assignment is logged with the queries that
\* are in flight at that moment
AfterPrices(writes, outcome, pending) ==
  IF outcome = "written" THEN Append(writes, [inFlight |-> pending]) ELSE writes

\* variant: the join settles as soon as one call has settled
JoinAny(pending) == pending # AssetClasses

\* await Promise.all([...]) of calls that never reject: all have settled
JoinAll(pending) == pending = {}

\* the classes of the account's queries that are in flight
Pending(a) == {q.class : q \in {p \in inFlight : p.account = a}}

notQueryVars ==
  <<scanVars, retryVars, priceVars, evmVars, filterVars, deriveVars,
    walletScanVars, exportVars, valueVars>>

\* main() is at the top of its loop, no cached snapshot being reused
QueryInit ==
  /\ ScanAtRest /\ RetryAtRest /\ PriceAtRest /\ EvmAtRest /\ FilterAtRest
  /\ DeriveAtRest /\ WalletScanAtRest /\ ExportAtRest /\ ValueAtRest
  /\ fetchFamily \in {"evm", "solana"}
  /\ fetchIdx = 0
  /\ queryPc = "loop"
  /\ networkIdx = 0
  /\ inFlight = {}
  /\ overlapped = FALSE
  /\ built = <<>>
  /\ cacheWrites = <<>>

\* main: await fetchAllBalances(wallet.address); the Solana one calls
\* getSOLBalance(address) first
CallFetchAllBalances ==
  /\ queryPc = "loop" /\ fetchIdx < MaxQueried
  /\ IF fetchFamily = "evm"
       THEN queryPc' = "network" /\ UNCHANGED inFlight
       ELSE queryPc' = "sol" /\ inFlight' = inFlight \cup {Query(fetchIdx, "native")}
  /\ networkIdx' = 0
  /\ UNCHANGED <<fetchFamily, fetchIdx, overlapped, built, cacheWrites>>
  /\ UNCHANGED notQueryVars

\* the EVM network loop: the three calls inside Promise.all([...])
CallAll ==
  /\ queryPc = "network" /\ networkIdx < Len(Networks)
  /\ inFlight' = inFlight \cup {Query(fetchIdx, c) : c \in AssetClasses}
  /\ overlapped' = TRUE
  /\ queryPc' = "join"
  /\ UNCHANGED <<fetchFamily, fetchIdx, networkIdx, built, cacheWrites>>
  /\ UNCHANGED notQueryVars

\* a call settles: the EVM ones and getSOLBalance any time after the call,
\* getSPLTokenBalances after its fetchTokenPrices
QuerySettle(q) ==
  /\ q \in inFlight
  /\ q.class = "splTokens" => queryPc = "splReturn"
  /\ inFlight' = inFlight \ {q}
  /\ UNCHANGED <<fetchFamily, fetchIdx, queryPc, networkIdx, overlapped, built,
                 cacheWrites>>
  /\ UNCHANGED notQueryVars

\* Promise.all has resolved: results[key] = {...}, next network
BuildEntry ==
  /\ queryPc = "join" /\ JoinAll(Pending(fetchIdx))
  /\ built' = Append(built, [account |-> fetchIdx, pending |-> inFlight,
                              together |-> overlapped])
  /\ overlapped' = FALSE
  /\ networkIdx' = networkIdx + 1
  /\ queryPc' = IF networkIdx + 1 < Len(Networks) THEN "network" ELSE "prices"
  /\ UNCHANGED <<fetchFamily, fetchIdx, inFlight, cacheWrites>>
  /\ UNCHANGED notQueryVars

\* the Solana fetchAllBalances after await getSOLBalance(address): it calls
\* getSPLTokenBalances(address)
CallSplTokens ==
  /\ queryPc = "sol" /\ Pending(fetchIdx) = {}
  /\ overlapped' = (overlapped \/ inFlight # {})
  /\ inFlight' = inFlight \cup {Query(fetchIdx, "splTokens")}
  /\ queryPc' = "spl"
  /\ UNCHANGED <<fetchFamily, fetchIdx, networkIdx, built, cacheWrites>>
  /\ UNCHANGED notQueryVars

\* getSPLTokenBalances: await fetchTokenPrices(coingeckoIds) for the known
\* tokens (none listed: no call), before it sorts and returns
SplTokenPrices ==
  /\ queryPc = "spl"
  /\ \E outcome \in PriceOutcomes(cacheWrites) \cup {"none"} :
       cacheWrites' = AfterPrices(cacheWrites, outcome, inFlight)
  /\ queryPc' = "splReturn"
  /\ UNCHANGED <<fetchFamily, fetchIdx, networkIdx, inFlight, overlapped, built>>
  /\ UNCHANGED notQueryVars

\* the Solana fetchAllBalances after await getSPLTokenBalances(address):
\* const balances = {sol, splTokens, nfts: []}
BuildBalances ==
  /\ queryPc = "splReturn" /\ Pending(fetchIdx) = {}
  /\ built' = Append(built, [account |-> fetchIdx, pending |-> inFlight,
                              together |-> overlapped])
  /\ overlapped' = FALSE
  /\ queryPc' = "prices"
  /\ UNCHANGED <<fetchFamily, fetchIdx, networkIdx, inFlight, cacheWrites>>
  /\ UNCHANGED notQueryVars

\* await calculateUSDValue(...): fetchPrices() / fetchSOLPrice(); then
\* fetchAllBalances returns and main saves, waits and increments i
ValueAndReturn ==
  /\ queryPc = "prices"
  /\ \E outcome \in PriceOutcomes(cacheWrites) :
       cacheWrites' = AfterPrices(cacheWrites, outcome, inFlight)
  /\ fetchIdx' = fetchIdx + 1
  /\ queryPc' = "loop"
  /\ UNCHANGED <<fetchFamily, networkIdx, inFlight, overlapped, built>>
  /\ UNCHANGED notQueryVars

QueryNext ==
  \/ CallFetchAllBalances
  \/ CallAll
  \/ \E q \in inFlight : QuerySettle(q)
  \/ BuildEntry
  \/ CallSplTokens
  \/ SplTokenPrices
  \/ BuildBalances
  \/ ValueAndReturn

QuerySpec == QueryInit /\ [][QueryNext]_vars

(* ------------------------ vocabulary of the claims -------------------- *)
\* main() is inside the per-account loop
InLoop == pc \in {"loop", "fetch", "save", "delay"}

\* main() ran the scan to its end and displayed the results
Completed == pc = "done" /\ exitCode = 0 /\ "Complete" \in console

\* accounts whose iteration has assigned balances so far
Processed == IF pc \in {"save", "delay"} THEN i + 1 ELSE i

\* the parsed cache file: <<>> or <<doc>>
FileDoc == loadCache(cacheFile)

\* addresses that got a non-empty snapshot in this invocation so far
ObtainedInRun ==
  {wallets[k].address : k \in {j \in 1..Processed : wallets[j].balances.kind = "data"}}

\* snapshots that existed at the start or were obtained since, and that the
\* cache file does not hold now
Lost == (heldAtStart \cup ObtainedInRun) \ Held(cacheFile)

\* the last entry of a document whose address equals a, letter case ignored
LastEntryFor(doc, a) ==
  LET idx == {k \in 1..Len(doc.wallets) :
                 toLowerCase(doc.wallets[k].address) = toLowerCase(a)}
  IN  IF idx = {} THEN <<>>
      ELSE <<doc.wallets[CHOOSE k \in idx : \A j \in idx : k >= j]>>

\* a completed scan that was allowed to reuse a prior cache it found
ResumedAndCompleted ==
  Completed /\ ~skipFetch /\ ~forceRescan /\ existingCache # <<>>

(* -------------------------------- C1 ---------------------------------- *)
\* C1: in a scan without --skip-fetch, when the loop turns to the next
\* account, the last saveCache call has written all accounts processed so
\* far, whether they were reused or fetched.
C1_SavedBeforeNextAccount ==
  (pc = "loop" /\ i < Len(wallets)) => lastSaved = i

(* -------------------------------- C2 ---------------------------------- *)
\* C2: at any point of the per-account loop (no write having failed), at
\* most one snapshot that was in the cache file at the start of the run or
\* was obtained during the run is missing from the cache file.
C2_AtMostOneLost ==
  (InLoop /\ "SaveError" \notin console) => Cardinality(Lost) <= 1

C4_NoFetchOfCached ==
  (InLoop /\ ~forceRescan /\ existingCache # <<>>) =>
    \A k \in 1..Len(existingCache[1].wallets) :
      LET e == existingCache[1].wallets[k]
      IN  e.balances.kind = "data" =>
            /\ \A n \in 1..Len(fetchLog) : fetchLog[n] # e.address
            /\ \A j \in 1..Processed :
                 wallets[j].address = e.address => wallets[j].totalUSD = e.totalUSD

(* -------------------------------- C5 ---------------------------------- *)
\* C5 as stated: with --force the prior cache file is not read.
C5_ForceNeverReads == forceRescan => ~cacheRead

\* C5 amended: with --force and without --skip-fetch the prior cache file
\* is not read, no snapshot is reused, and fetchAllBalances is invoked once
\* per discovered account in discovery order.
C5_ForceFetchesAll ==
  (forceRescan /\ ~skipFetch /\ exitCode # 130) =>
    /\ ~cacheRead
    /\ existingCache = <<>>
    /\ skippedCount = 0
    /\ fetchLog = SubSeq(vault, 1, IF pc = "fetch" THEN i + 1 ELSE Processed)
    /\ (Completed => fetchLog = vault)

\* C5 witness: a forced scan completed over a cache file that held all
\* three accounts
C5_Witness ==
  /\ Completed /\ forceRescan /\ ~skipFetch
  /\ Len(vault) = 3
  /\ Cardinality(heldAtStart) = 3

(* -------------------------------- C6 ---------------------------------- *)
\* C6: every document a scan has written to the cache file lists a prefix
\* of the discovered accounts in discovery order (all of them at
\* completion), scannedWallets is the length of the list, and every listed
\* wallet has balances and a totalUSD.
C6_PersistedPrefix ==
  (lastSaved > 0 /\ FileDoc # <<>>) =>
    LET doc == FileDoc[1]
    IN  /\ Len(doc.wallets) <= Len(vault)
        /\ AddressesOf(doc.wallets) = SubSeq(vault, 1, Len(doc.wallets))
        /\ doc.scannedWallets = Len(doc.wallets)
        /\ doc.wallets = SubSeq(wallets, 1, Len(doc.wallets))
        /\ \A k \in 1..Len(doc.wallets) :
             /\ doc.wallets[k].balances.kind # "undefined"
             /\ doc.wallets[k].totalUSD # NoUSD
        /\ (Completed => Len(doc.wallets) = Len(vault))

\* C6 witness: an intermediate save of 2 of 3 accounts, the second one
\* following a reused first one
C6_Witness ==
  /\ pc = "delay" /\ FileDoc # <<>>
  /\ Len(vault) = 3 /\ Len(FileDoc[1].wallets) = 2
  /\ skippedCount = 1

(* -------------------------------- C7 ---------------------------------- *)
\* C7: in every document written to the cache file totalPortfolioUSD is
\* the sum of totalUSD over the wallets of that document.
C7_TotalIsSum ==
  FileDoc # <<>> => FileDoc[1].totalPortfolioUSD = SumUSD(FileDoc[1].wallets)

\* C7 witness: a written document of three wallets, reused, failed and
\* fetched, with a total above zero
C7_Witness ==
  /\ lastSaved = 3 /\ FileDoc # <<>>
  /\ Len(FileDoc[1].wallets) = 3
  /\ skippedCount >= 1 /\ fetchedCount >= 1 /\ "FetchError" \in console
  /\ FileDoc[1].totalPortfolioUSD >= 2

(* -------------------------------- C8 ---------------------------------- *)
\* the final ScanRun of a scan that was not killed
FinalScanRunComplete ==
  /\ Completed
  /\ results # <<>>
  /\ AddressesOf(results[1].wallets) = vault
  /\ results[1].scannedWallets = Len(vault)
  /\ skippedCount + Len(settled) = Len(vault)
  /\ \A n \in 1..Len(settled) :
       ~settled[n].threw =>
         results[1].wallets[settled[n].idx].balances = settled[n].balances
  /\ ("Saved" \in console => FileDoc = results)

\* C8: whatever fetches throw, a scan that is not killed visits every
\* account and reaches Complete with a final ScanRun of all M accounts in
\* which the fetched snapshots are intact (and which is in the cache file
\* when the final write succeeds).
C8_AlwaysCompletes ==
  /\ [](( pc = "done" /\ ~skipFetch /\ vault # <<>> /\ exitCode # 130)
          => FinalScanRunComplete)
  /\ ((pc \in {"load", "loop", "fetch", "save", "delay"}) ~> (pc = "done"))

\* C8 witness: a completed scan of three accounts with a thrown fetch
\* before a successful one
C8_Witness ==
  /\ FinalScanRunComplete
  /\ Len(settled) = 3
  /\ settled[1].threw /\ ~settled[2].threw /\ settled[3].threw
  /\ "Saved" \in console

(* -------------------------------- C9 ---------------------------------- *)
\* C9: an account whose balance aggregation failed (the fetch threw, or
\* returned its error snapshot) is recorded with totalUSD 0 and balances
\* that carry an error annotation.
C9_FailureAnnotated ==
  InLoop =>
    \A n \in 1..Len(settled) :
      (settled[n].threw \/ settled[n].balances.error) =>
        /\ wallets[settled[n].idx].totalUSD = 0
        /\ wallets[settled[n].idx].balances.error

(* -------------------------------- C10 --------------------------------- *)
\* C10: a scan that discovers no account reports that no wallets were found
\* and exits with status 0; it does not read the cache file, and the file
\* is as it was before (absent, or the leftover of an earlier scan).
C10_NoWalletsFound ==
  (pc = "done" /\ ~skipFetch /\ vault = <<>>) =>
    /\ console = {"NoWalletsFound"}
    /\ exitCode = 0
    /\ ~cacheRead
    /\ lastSaved = 0
    /\ results = <<>>
    /\ cacheFile \in InitialFiles(vault)

\* C10 witness: the scan of an empty vault ended beside a leftover file
C10_Witness ==
  /\ pc = "done" /\ ~skipFetch /\ vault = <<>>
  /\ "NoWalletsFound" \in console
  /\ cacheFile = LeftoverFile

(* -------------------------------- C11 --------------------------------- *)
\* C11: at every instant, a kill in the middle of a save included, the
\* cache file is absent or holds a complete JSON document (the one persisted
\* before or the new one), never a partial document.
C11_AtomicOverwrite == cacheFile = <<>> \/ cacheFile[1].valid

(* -------------------------------- C12 --------------------------------- *)
\* the fetches of this invocation whose account the loop has left behind
FetchedAndLeft == {n \in 1..Len(settled) : settled[n].idx <= i}

\* C12: when the loop turns to the next account (or has left the last one),
\* one pacing delay has been awaited for every account fetched so far,
\* whether its fetch resolved or threw, and none for a reused account: the
\* accounts left behind are the reused ones plus the delayed ones.
C12_DelayAfterFetchOnly ==
  ((InLoop \/ Completed) /\ ~skipFetch) =>
    /\ delays = Cardinality(FetchedAndLeft)
    /\ skippedCount + delays = i
    /\ (pc \in {"loop", "done"} => delays = Len(settled))

\* C12 witness: the loop is past three accounts, one reused without a
\* delay, one fetched, one whose fetch threw, and two delays were awaited
C12_Witness ==
  /\ pc = "loop" /\ i = 3
  /\ skippedCount = 1 /\ delays = 2
  /\ \E n, m \in 1..Len(settled) : settled[n].threw /\ ~settled[m].threw

(* -------------------------------- C13 --------------------------------- *)
\* C13: when the native-balance query of getSOLBalance fails twice with a
\* rate-limit error and would succeed on the third attempt, the settled
\* call returns the successfully fetched balance (no zero result, no error)
\* and the endpoint rotation has advanced at least twice.
C13_RetriedToSuccess ==
  ( /\ wrapped = "getSOLBalance" /\ maxRetries = DefaultMaxRetries
    /\ retryPc = "done"
    /\ Len(script) = 3
    /\ is429(script[1]) /\ is429(script[2]) /\ script[3] = "ok" )
  => /\ retryResult.kind = "returned"
     /\ retryResult.lamports = ChainLamports
     /\ retryResult.error = NoError
     /\ rotations >= 2

(* -------------------------------- C14 --------------------------------- *)
RECURSIVE StatedLog(_)
\* what the statement lets withRetry do up to its n-th invocation: call,
\* then for each earlier attempt k (0-based) wait min(1000*2^k, 5000),
\* rotate, call
StatedLog(n) ==
  IF n = 1 THEN <<[ev |-> "call", ms |-> 0]>>
  ELSE StatedLog(n - 1) \o
         <<[ev |-> "wait",
            ms |-> IF n = 2 THEN 1000 ELSE IF n = 3 THEN 2000
                   ELSE IF n = 4 THEN 4000 ELSE 5000],
           [ev |-> "rotate", ms |-> 0],
           [ev |-> "call", ms |-> 0]>>

\* the first query of the script, among the first maxRetries, whose failure
\* is not a 429/403 one or which succeeds; maxRetries if there is none
StatedInvocations ==
  LET stops == {k \in 1..maxRetries : ~(is429(Answer(k)) \/ is403(Answer(k)))}
  IN  IF stops = {} THEN maxRetries
      ELSE CHOOSE k \in stops : \A j \in stops : k <= j

\* C14: withRetry invokes fn at most maxRetries times; with an fn that
\* rejects, each failed attempt i that is not the last and whose message
\* indicates 429 or 403 is followed by a wait of min(1000*2^i, 5000) ms,
\* then a rotation, then the next invocation; when the last attempt fails
\* its error is rethrown.
C14_BoundedBackoff ==
  /\ invocations <= maxRetries
  /\ (wrapped = "rejecting" /\ retryPc = "done") =>
       /\ invocations = StatedInvocations
       /\ retryLog = StatedLog(invocations)
       /\ rotations = invocations - 1
       /\ (invocations = maxRetries /\ Answer(maxRetries) # "ok") =>
            /\ retryResult.kind = "threw"
            /\ retryResult.error = Answer(maxRetries)

\* C14 witness: five attempts all failed with 429/403 messages, the capped
\* wait of 5000 ms was reached and the last error was rethrown
C14_Witness ==
  /\ wrapped = "rejecting" /\ retryPc = "done" /\ maxRetries = 5
  /\ invocations = 5
  /\ retryResult.kind = "threw" /\ is403(retryResult.error)
  /\ \E k \in 1..Len(retryLog) : retryLog[k].ms = 5000

(* -------------------------------- C15 --------------------------------- *)
\* the failures withRetry does not retry
OtherErrors == {m \in ErrorMessages : ~is429(m) /\ ~is403(m)}

\* C15 as stated: an error that is neither a 429 nor a 403 one is rethrown
\* after exactly one invocation, with no delay and no rotation.
C15_OneInvocation ==
  ( /\ wrapped = "rejecting" /\ retryPc = "done"
    /\ retryResult.kind = "threw" /\ retryResult.error \in OtherErrors )
  => /\ invocations = 1
     /\ \A k \in 1..Len(retryLog) : retryLog[k].ev = "call"
     /\ rotations = 0 /\ currentRPCIndex = 0

\* C15 amended: once an invocation has failed with an error that is neither
\* a 429 nor a 403 one, withRetry has rethrown that error with no further
\* invocation, delay or rotation after the failure; when the failure is
\* that of the first invocation, this is after exactly one invocation, no
\* delay and no rotation at all.
C15_RethrownAtOnce ==
  \A k \in 1..invocations :
    ( /\ wrapped = "rejecting"
      /\ k < invocations \/ retryPc \in {"wait", "done"}
      /\ Answer(k) \in OtherErrors )
    => /\ retryPc = "done"
       /\ invocations = k
       /\ retryResult.kind = "threw" /\ retryResult.error = Answer(k)
       /\ retryLog[Len(retryLog)].ev = "call"
       /\ rotations = k - 1
       /\ k = 1 => (Len(retryLog) = 1 /\ currentRPCIndex = 0)

\* C15 witness: with three attempts allowed, the first invocation failed
\* with "fetch failed" and the call has settled
C15_Witness ==
  /\ wrapped = "rejecting" /\ retryPc = "done" /\ maxRetries = 3
  /\ script = <<"fetch failed">>
  /\ invocations = 1 /\ retryResult.kind = "threw"

(* -------------------------------- C16 --------------------------------- *)
\* the oracle answered for id less than PRICE_CACHE_DURATION before the
\* running call was made
AnsweredWithinWindow(id) ==
  fetchedAt[id] # 0 /\ callNow - fetchedAt[id] < PRICE_CACHE_DURATION

\* C16: a request for an identifier made less than PRICE_CACHE_DURATION
\* after a successful oracle query for it issues no oracle request for it
\* and returns the price cached by that query.
C16_CachedWithinWindow ==
  (pricePc = "pending" \/ (pricePc = "done" /\ oracleOutcome # "fulfilled")) =>
    \A id \in tokenIds :
      AnsweredWithinWindow(id) =>
        /\ id \notin uncachedIds
        /\ pricePc = "done" => cachedPrices[id] = priceCache[id]

(* -------------------------------- C17 --------------------------------- *)
\* what the call could have returned had the oracle answered
ReturnedOnSuccess ==
  {UpdatedPrices([id \in tokenIds \ uncachedIds |-> cachedPrices[id]], uncachedIds, q) :
     q \in [PriceIds -> OraclePrices]}

\* the fallback of the catch block: the last cached price or zero
FallbackIsLastKnown ==
  \A id \in tokenIds : cachedPrices[id] = OrZero(priceCache[id])

\* C17: when the oracle request fails, every requested identifier gets the
\* last price cached for it, however old, or zero if there is none, and
\* what is returned is marked as approximate: it cannot be taken for the
\* result of a call the oracle answered.
C17_FallbackMarked ==
  (pricePc = "done" /\ oracleOutcome = "rejected") =>
    /\ FallbackIsLastKnown
    /\ cachedPrices \notin ReturnedOnSuccess

(* -------------------------------- C18 --------------------------------- *)
\* the entry the same answers give when the token listing (the NFT
\* listing) comes back empty instead of failing
EntryWithEmptyTokens ==
  NetworkEntry(getNativeBalance(chain.native), getERC20Balances(NoListing),
               getNFTBalances(chain.nfts))

EntryWithEmptyNfts ==
  NetworkEntry(getNativeBalance(chain.native), getERC20Balances(chain.tokens),
               getNFTBalances(NoListing))

\* C18: in the entry of a network, an asset class whose query failed is
\* empty or zero and marked as errored (the entry differs from that of a
\* query that succeeded with nothing), and the other classes carry what
\* their own queries returned.
C18_FailedClassMarked ==
  networkResult # <<>> =>
    LET r == networkResult[1]
    IN  /\ chain.native = "failed" =>
             /\ r.native.raw = 0 /\ r.native.error # NoError
             /\ r.erc20Tokens = getERC20Balances(chain.tokens)
             /\ r.nfts = getNFTBalances(chain.nfts)
        /\ chain.tokens.listing = "failed" =>
             /\ r.erc20Tokens = <<>> /\ r # EntryWithEmptyTokens
             /\ r.native = getNativeBalance(chain.native)
             /\ r.nfts = getNFTBalances(chain.nfts)
        /\ chain.nfts.listing = "failed" =>
             /\ r.nfts = <<>> /\ r # EntryWithEmptyNfts
             /\ r.native = getNativeBalance(chain.native)
             /\ r.erc20Tokens = getERC20Balances(chain.tokens)

(* -------------------------------- C19 --------------------------------- *)
\* the entry the same answers give when the token (NFT) listing stops at
\* the limit
EntryWithTokensAtLimit ==
  NetworkEntry(getNativeBalance(chain.native),
               getERC20Balances([chain.tokens EXCEPT !.count = TokenLimit]),
               getNFTBalances(chain.nfts))

EntryWithNftsAtLimit ==
  NetworkEntry(getNativeBalance(chain.native), getERC20Balances(chain.tokens),
               getNFTBalances([chain.nfts EXCEPT !.count = NftLimit]))

\* C19: at most 50 token contracts and 30 NFT collections are queried for
\* one address on a network, and when a listing names more than the limit
\* the entry records how many were dropped (it differs from the entry of a
\* listing that stops at the limit).
C19_LimitRecorded ==
  /\ inspected.erc20 <= 50 /\ inspected.nfts <= 30
  /\ networkResult # <<>> =>
       /\ chain.tokens.count > 50 => networkResult[1] # EntryWithTokensAtLimit
       /\ chain.nfts.count > 30 => networkResult[1] # EntryWithNftsAtLimit

(* -------------------------------- C20 --------------------------------- *)
\* the records of a list whose address equals a, letter case ignored
SameAddress(ws, a) ==
  {k \in 1..Len(ws) : toLowerCase(ws[k].address) = toLowerCase(a)}

\* C20: when exactly two input records have the same address (letter case
\* ignored) and exactly one of them has a seed phrase, the list returned
\* holds for that address the record with the seed phrase, whatever the
\* totalUSD values and the order of the two.
C20_SeedPhraseKept ==
  dedupPc = "done" =>
    \A m, n \in 1..Len(filtered) :
      ( /\ m < n
        /\ SameAddress(filtered, filtered[m].address) = {m, n}
        /\ (filtered[m].mnemonic = NoMnemonic) # (filtered[n].mnemonic = NoMnemonic) )
      => \A k \in SameAddress(unique, filtered[m].address) :
           /\ unique[k].mnemonic # NoMnemonic
           /\ unique[k] \in {filtered[m], filtered[n]}

(* ------ C21: a record without balance is absent from the output ------- *)
\* the filter's main() has ended
FilterEnded == filterPc \in {"written", "exit"}

\* the wallets of the output document, none when nothing was written
OutputWallets == IF output = <<>> THEN <<>> ELSE output[1].wallets

\* the has-balance predicate as stated: a positive totalUSD, or a positive
\* native or token quantity, or a positive collectible count
StatedHasBalance(wallet) ==
  \/ wallet.totalUSD > 0
  \/ /\ wallet.balances # NoBalances
     /\ \/ wallet.balances[1].native > 0
        \/ \E t \in 1..Len(wallet.balances[1].tokens) :
             wallet.balances[1].tokens[t] > 0
        \/ \E c \in 1..Len(wallet.balances[1].nfts) :
             wallet.balances[1].nfts[c] > 0

\* input records that made it to the output
InOutput == {OutputWallets[o].position : o \in 1..Len(OutputWallets)}

\* C21: no record of input.wallets for which the stated has-balance
\* predicate is false is in the filter's output
C21_NoBalanceAbsent ==
  \A k \in 1..Len(inputWallets) :
    ~StatedHasBalance(inputWallets[k]) => k \notin InOutput

\* an output was written from an input that has a record with a native
\* quantity of zero and nothing else, and the output holds another record of
\* that address
C21_Witness ==
  /\ filterPc = "written"
  /\ \E k \in 1..Len(inputWallets) :
       /\ inputWallets[k].balances = ZeroBalances
       /\ k \notin InOutput
       /\ \E o \in 1..Len(OutputWallets) :
            OutputWallets[o].address = inputWallets[k].address

(* ------ C22: a record with positive totalUSD is represented ----------- *)
\* the output records for an address, spelling of letters aside
RepresentedBy(address) ==
  {o \in 1..Len(OutputWallets) :
     toLowerCase(OutputWallets[o].address) = toLowerCase(address)}

\* C22: when the filter has ended, the output holds a record for the
\* address of every input record whose totalUSD is greater than 0
C22_FundedRepresented ==
  FilterEnded =>
    \A k \in 1..Len(inputWallets) :
      inputWallets[k].totalUSD > 0 =>
        RepresentedBy(inputWallets[k].address) # {}

\* a record with positive totalUSD that is not itself in the output: its
\* address is represented by the duplicate that replaced it
C22_Witness ==
  /\ filterPc = "written"
  /\ \E k \in 1..Len(inputWallets) :
       /\ inputWallets[k].totalUSD > 0
       /\ k \notin InOutput
       /\ RepresentedBy(inputWallets[k].address) # {}

(* ------ C23: removeDuplicates returns one record per address ---------- *)
\* the records of a list for an address, spelling of letters aside
IgnoringCase(ws, address) ==
  {k \in 1..Len(ws) : toLowerCase(ws[k].address) = toLowerCase(address)}

\* C23: the list removeDuplicates returns holds only records of its
\* argument and exactly one record for every address of the argument,
\* letter case ignored
C23_OnePerAddress ==
  dedupPc = "done" =>
    /\ \A k \in 1..Len(unique) : \E m \in 1..Len(filtered) : unique[k] = filtered[m]
    /\ \A m \in 1..Len(filtered) :
         Cardinality(IgnoringCase(unique, filtered[m].address)) = 1
    /\ \A k, l \in 1..Len(unique) :
         toLowerCase(unique[k].address) = toLowerCase(unique[l].address) => k = l

\* removeDuplicates has returned fewer records than it was given, for an
\* argument with two spellings of one address
C23_Witness ==
  /\ dedupPc = "done"
  /\ Len(unique) < Len(filtered)
  /\ \E m, n \in 1..Len(filtered) :
       /\ filtered[m].address # filtered[n].address
       /\ toLowerCase(filtered[m].address) = toLowerCase(filtered[n].address)

(* ------ C24: the output is sorted, stable, numbered ------------------- *)
\* C24: the output wallets are in non-increasing order of totalUSD, records
\* of equal totalUSD are in the order they had in the input, and
\* walletNumber counts 1..n in that order
C24_SortedStableNumbered ==
  filterPc = "written" =>
    /\ \A o \in 1..Len(OutputWallets) : OutputWallets[o].walletNumber = o
    /\ \A o, q \in 1..Len(OutputWallets) :
         o < q =>
           /\ OutputWallets[o].totalUSD >= OutputWallets[q].totalUSD
           /\ OutputWallets[o].totalUSD = OutputWallets[q].totalUSD
                => OutputWallets[o].position < OutputWallets[q].position

ScanReturned == scanPc = "done"

WalletsOf(name) == SelectSeq(allWallets, LAMBDA w : w.profile = name)

\* a seed record with a solana chain entry, or a privateKey record whose
\* chainType is solana
SolanaRecord(account) ==
  account.chain = "solana" /\ account.type \in {"seed", "privateKey"}

\* an address that does not start with '0x', of 32 to 44 characters
SolanaShaped(address) ==
  ~address.hex /\ address.length \in 32..44

\* the record at place r is a Solana record with a Solana-shaped address
\* that no such record before it has
FirstOfItsAddress(accounts, r) ==
  /\ SolanaRecord(accounts[r]) /\ SolanaShaped(accounts[r].publicKey)
  /\ \A q \in 1..(r - 1) :
       ~ /\ SolanaRecord(accounts[q])
         /\ accounts[q].publicKey = accounts[r].publicKey

\* C26: every account the Phantom extractor returns comes from a seed
\* record with a solana chain entry or a privateKey record of chainType
\* solana, with an address of 32 to 44 characters that does not start
\* with '0x'; any other record is skipped without an error line, and the
\* records after it are extracted as if it were not there
C26_SolanaRecordsOnly ==
  scanFamily = "solana" =>
    \A k \in 1..scanIdx :
      (scanProfiles[k].store = "ok" /\ scanProfiles[k].content.accounts # <<>>) =>
        LET accounts == scanProfiles[k].content.accounts[1]
            found == WalletsOf(ProfileNames[k])
        IN  /\ \A j \in 1..Len(found) :
                 /\ found[j].index + 1 \in 1..Len(accounts)
                 /\ SolanaRecord(accounts[found[j].index + 1])
                 /\ found[j].address = accounts[found[j].index + 1].publicKey
                 /\ SolanaShaped(found[j].address)
            /\ \A r \in 1..Len(accounts) :
                 FirstOfItsAddress(accounts, r) =>
                   \E j \in 1..Len(found) : found[j].index = r - 1
            /\ \A e \in 1..Len(scanErrors) :
                 scanErrors[e].profile # ProfileNames[k]

\* a vault whose first record is a seed record with a hex address of 42
\* characters in its solana entry, followed by a record that is extracted
C26_Witness ==
  /\ scanFamily = "solana" /\ ScanReturned
  /\ Len(scanProfiles) = 1
  /\ scanProfiles[1].store = "ok" /\ scanProfiles[1].content.accounts # <<>>
  /\ LET accounts == scanProfiles[1].content.accounts[1]
     IN  /\ Len(accounts) = MaxAccounts
         /\ accounts[1].type = "seed" /\ accounts[1].chain = "solana"
         /\ accounts[1].publicKey.hex /\ accounts[1].publicKey.length = 42
         /\ Len(allWallets) = 1
         /\ allWallets[1].index = MaxAccounts - 1

(* ------ C27: a wrong password still lists every account --------------- *)
\* decrypt rejects the password for every vault
WrongPassword == \A k \in 1..Len(scanProfiles) : ~scanProfiles[k].decrypts

\* the addresses of the accounts a store holds, in the order of the vault
HeldAddresses(family, profile) ==
  LET held == IF family = "solana"
                THEN extractWalletAddresses(profile.content)
                ELSE extractWalletAddressesEvm(profile.content).wallets
  IN  [k \in 1..Len(held) |-> held[k].address]

\* C27: when the password is wrong for every vault, the scan returns, and
\* it lists every account of every vault that could be read, with its
\* address and with null private key and seed phrase
C27_ListedWithoutSecrets ==
  (ScanReturned /\ WrongPassword) =>
    \A k \in 1..Len(scanProfiles) :
      scanProfiles[k].store = "ok" =>
        LET found == WalletsOf(ProfileNames[k])
        IN  /\ [j \in 1..Len(found) |-> found[j].address]
                 = HeldAddresses(scanFamily, scanProfiles[k])
            /\ \A j \in 1..Len(found) :
                 /\ found[j].privateKey = NoSecret
                 /\ found[j].mnemonic = NoMnemonic

(* ------ C29: a failing profile does not stop the scan ----------------- *)
\* reading the profile's store or decrypting its vault fails
FailedProfile(family, profile) ==
  \/ profile.store = "throws"
  \/ family = "evm" /\ profile.store = "ok" /\ ~profile.decrypts

\* the place of a profile in the list of profiles
PlaceOf(name) == CHOOSE k \in 1..Len(ProfileNames) : ProfileNames[k] = name

\* C29: a profile whose store cannot be read or whose vault cannot be
\* decrypted contributes no accounts; every other profile contributes the
\* accounts of its vault in the order of the vault, and the accounts of the
\* list are in the order of the profiles
C29_FailureContained ==
  ScanReturned =>
    /\ \A k \in 1..Len(scanProfiles) :
         LET found == WalletsOf(ProfileNames[k])
         IN  IF FailedProfile(scanFamily, scanProfiles[k]) \/ scanProfiles[k].store = "none"
               THEN found = <<>>
               ELSE [j \in 1..Len(found) |-> found[j].address]
                      = HeldAddresses(scanFamily, scanProfiles[k])
    /\ \A m, n \in 1..Len(allWallets) :
         m < n => PlaceOf(allWallets[m].profile) <= PlaceOf(allWallets[n].profile)
    /\ \A m \in 1..Len(allWallets) :
         PlaceOf(allWallets[m].profile) <= Len(scanProfiles)

\* the store of the first profile could not be read and the last profile
\* contributed accounts, or the other way round
C29_Witness ==
  /\ ScanReturned
  /\ Len(scanProfiles) = MaxProfiles
  /\ \/ /\ FailedProfile(scanFamily, scanProfiles[1])
        /\ WalletsOf(ProfileNames[MaxProfiles]) # <<>>
     \/ /\ FailedProfile(scanFamily, scanProfiles[MaxProfiles])
        /\ WalletsOf(ProfileNames[1]) # <<>>

(* ------ C28: a failed credential stays with its account --------------- *)
\* the records of the readable stores for exactly this address
RecordsOf(address) ==
  {<<p, r>> \in (1..Len(exportProfiles)) \X (1..MaxAccounts + 1) :
     /\ exportProfiles[p].store = "ok"
     /\ r <= Len(exportProfiles[p].accounts)
     /\ exportProfiles[p].accounts[r].publicKey = address}

\* the record's blob is there, is decrypted and gives a key
GivesKey(account) ==
  /\ account.blob # <<>>
  /\ account.blob[1].decrypts
  /\ IF account.type = "seed"
       THEN account.blob[1].plaintext # "not a phrase"
       ELSE account.blob[1].plaintext # BadKey

\* C28: in the written export every requested wallet appears; a wallet for
\* whose address no record of a readable store has a blob that is there,
\* decrypts and gives a key has null private key and seed phrase and the
\* note, and every other wallet has the private key of such a record of
\* its own address and no note
C28_FailureStaysWithAccount ==
  exportPc = "written" =>
    /\ Len(exportWallets) = Len(walletsWithSPL)
    /\ \A k \in 1..Len(walletsWithSPL) :
         \E e \in 1..Len(exportWallets) :
           /\ exportWallets[e].address = walletsWithSPL[k].address
           /\ LET good == {pr \in RecordsOf(walletsWithSPL[k].address) :
                             GivesKey(exportProfiles[pr[1]].accounts[pr[2]])}
              IN  IF good = {}
                    THEN /\ exportWallets[e].privateKey = NoSecret
                         /\ exportWallets[e].mnemonic = NoMnemonic
                         /\ exportWallets[e].note
                    ELSE /\ exportWallets[e].privateKey # NoSecret
                         /\ ~exportWallets[e].note

(* -------------------------------- C31 --------------------------------- *)
\* C31: an invocation with --skip-fetch leaves the cache file as it is,
\* calls neither scanAllWallets nor fetchAllBalances, and either displays
\* the document loadCache returned and ends with status 0, or, when the
\* file is absent or does not parse, displays nothing and exits with
\* status 1.
C31_SkipFetchFrame ==
  [][skipFetch' =>
       /\ cacheFile' = cacheFile
       /\ wallets' = <<>>
       /\ fetchLog' = <<>> /\ settled' = <<>>
       /\ IF loadCache(cacheFile) # <<>>
            THEN /\ results' = loadCache(cacheFile)
                 /\ console' = {"Display"}
                 /\ exitCode' = 0
            ELSE /\ "Display" \notin console'
                 /\ exitCode' = 1]_vars

\* C31 witness: --skip-fetch displayed the document an interrupted scan of
\* three accounts had persisted after two of them
C31_Witness ==
  /\ skipFetch /\ pc = "done" /\ exitCode = 0
  /\ console = {"Display"}
  /\ Len(vault) = 3
  /\ results = FileDoc
  /\ results[1].scannedWallets = 2

(* -------------------------------- C32 --------------------------------- *)
RECURSIVE SumOfUsd(_)
\* the sum of the usd values of the components of a list that have one
SumOfUsd(components) ==
  IF components = <<>> THEN 0
  ELSE (IF Head(components).usd = NoUSD THEN 0 ELSE Head(components).usd)
         + SumOfUsd(Tail(components))

\* the priced components of a returned snapshot: natives, then tokens
ComponentsOf(family, balances) ==
  IF family = "evm"
    THEN [n \in 1..Len(balances.networks) |-> balances.networks[n].native]
           \o balances.networks[1].erc20Tokens
           \o balances.networks[2].erc20Tokens
           \o balances.networks[3].erc20Tokens
    ELSE <<balances.sol>> \o balances.splTokens

\* the price the oracle gave for a component of the fetched balances
QuoteOf(id) == IF id \in DOMAIN quotes THEN OrZero(quotes[id]) ELSE 0

\* the fetched components with the identifier each is priced by
FetchedComponents ==
  IF valueFamily = "evm"
    THEN [n \in 1..Len(Networks) |->
            [coingeckoId |-> Networks[n].coingeckoId,
             balance |-> fetched[n].native.balance]]
    ELSE <<[coingeckoId |-> "solana", balance |-> fetched.sol.balance]>>
           \o [k \in 1..Len(fetched.splTokens) |->
                 [coingeckoId |-> fetched.splTokens[k].coingeckoId,
                  balance |-> fetched.splTokens[k].balance]]

RECURSIVE WorthOf(_)
\* balance times price over the components the oracle has a price for
WorthOf(components) ==
  IF components = <<>> THEN 0
  ELSE Head(components).balance * QuoteOf(Head(components).coingeckoId)
         + WorthOf(Tail(components))

\* C32: the totalUSD of a snapshot fetchAllBalances returned is the sum of
\* the usd values its native balances and tokens carry, which is the worth
\* of the components the oracle priced; a component without a price
\* carries no usd value or the value 0.
C32_TotalIsPricedSum ==
  snapshot # <<>> =>
    /\ snapshot[1].totalUSD = SumOfUsd(ComponentsOf(valueFamily, snapshot[1]))
    /\ snapshot[1].totalUSD = WorthOf(FetchedComponents)

\* C32 witness: a Solana snapshot with SOL, a priced token and a token that
\* has no price, the total being the SOL value plus the priced token's
C32_Witness ==
  /\ snapshot # <<>> /\ valueFamily = "solana"
  /\ Len(snapshot[1].splTokens) = 2
  /\ snapshot[1].splTokens[1].usd = MaxUnits * MaxQuote
  /\ snapshot[1].splTokens[2].usd = NoUSD
  /\ snapshot[1].sol.usd = MaxQuote
  /\ snapshot[1].totalUSD = (MaxUnits + 1) * MaxQuote

(* -------------------------------- C33 --------------------------------- *)
\* the queries in flight all belong to one account
OneAccountInFlight == \A p, q \in inFlight : p.account = q.account

\* every entry was built when none of its account's queries was in flight
BuiltAfterJoin ==
  \A n \in 1..Len(built) :
    \A q \in built[n].pending : q.account # built[n].account

\* C33 as stated: the queries of every entry built were in flight together
\* and had all settled when it was built, the queries in flight belong to
\* one account, and priceCache was never assigned with a query in flight.
C33_ConcurrentAndJoined ==
  /\ BuiltAfterJoin
  /\ \A n \in 1..Len(built) : built[n].together
  /\ OneAccountInFlight
  /\ \A n \in 1..Len(cacheWrites) : cacheWrites[n].inFlight = {}

\* C33 amended: in the EVM fetcher the three queries of a network are in
\* flight together, and priceCache is assigned with no query in flight; in
\* the Solana fetcher the token query is called after the SOL query has
\* settled, and priceCache is assigned with at most the token query of the
\* current account in flight.  In both, an entry is built after its queries
\* have settled and the queries in flight belong to the one account the
\* loop is at.
C33_JoinedOneAccount ==
  /\ BuiltAfterJoin
  /\ \A n \in 1..Len(built) : built[n].together <=> fetchFamily = "evm"
  /\ OneAccountInFlight
  /\ \A q \in inFlight : q.account = fetchIdx
  /\ \A n \in 1..Len(cacheWrites) :
       /\ Cardinality(cacheWrites[n].inFlight) <= 1
       /\ \A q \in cacheWrites[n].inFlight :
            fetchFamily = "solana" /\ q.class = "splTokens"

\* C33 witness: the EVM loop is at its second account with two queries of
\* the second network in flight, every network of the first account built
\* and priceCache assigned once
C33_Witness ==
  /\ fetchFamily = "evm" /\ fetchIdx = 1 /\ networkIdx = 1
  /\ Cardinality(inFlight) = 2
  /\ Len(built) = Len(Networks) + 1
  /\ Len(cacheWrites) = 1

(* -------------------------------- C34 --------------------------------- *)
\* accounts of this invocation that took the "Using cached data" branch
ReusedAccounts ==
  {k \in 1..Processed : \A n \in 1..Len(settled) : settled[n].idx # k}

\* C34: every account that reused a snapshot carries the balances of an
\* entry of the prior cache whose address is exactly the account's address.
C34_ReusedOwnSnapshot ==
  (InLoop /\ existingCache # <<>>) =>
    \A k \in ReusedAccounts :
      \E n \in 1..Len(existingCache[1].wallets) :
        /\ existingCache[1].wallets[n].address = wallets[k].address
        /\ existingCache[1].wallets[n].balances = wallets[k].balances

(* -------------------------------- C35 --------------------------------- *)
\* the prior cache records a failed balance query for the address: the
\* fetcher's zero snapshot with an error, or the {} of main's catch branch
FailureRecorded(address) ==
  \E n \in 1..Len(existingCache[1].wallets) :
    /\ existingCache[1].wallets[n].address = address
    /\ \/ existingCache[1].wallets[n].balances.error
       \/ existingCache[1].wallets[n].balances.kind = "empty"

\* C35: in a run without --force, an account for whose address the prior
\* cache records a failed balance query is fetched again, not reused.
C35_FailedFetchedAgain ==
  (InLoop /\ ~forceRescan /\ existingCache # <<>>) =>
    \A k \in 1..Processed :
      FailureRecorded(wallets[k].address) => k \notin ReusedAccounts

(* -------------------------------- C36 --------------------------------- *)
\* the identifiers whose price the call took from priceCache, without
\* asking the oracle for them
TakenFromCache == tokenIds \ uncachedIds

\* C36: a price a call of fetchTokenPrices takes from the price cache was
\* obtained from the oracle, for that identifier, less than
\* PRICE_CACHE_DURATION before the call.
C36_FreshPerIdentifier ==
  pricePc # "idle" =>
    \A id \in TakenFromCache : callNow - fetchedAt[id] < PRICE_CACHE_DURATION

(* -------------------------------- C37 --------------------------------- *)
\* the selections of one record for every distinct address of a list
OnePerAddress(ws) ==
  {S \in SUBSET (1..Len(ws)) :
     \A k \in 1..Len(ws) :
       Cardinality({j \in S : ws[j].address = ws[k].address}) = 1}

RECURSIVE SumPicked(_, _, _)
\* sum of totalUSD over the records of the first n that are selected
SumPicked(ws, S, n) ==
  IF n = 0 THEN 0
  ELSE SumPicked(ws, S, n - 1) + (IF n \in S THEN OrZero(ws[n].totalUSD) ELSE 0)

\* C37: the totalPortfolioUSD of a completed scan is the sum of totalUSD
\* over one record for every distinct address among its wallets.
C37_EachAddressOnce ==
  Completed =>
    \E S \in OnePerAddress(results[1].wallets) :
      results[1].totalPortfolioUSD
        = SumPicked(results[1].wallets, S, Len(results[1].wallets))

(* -------------------------------- C38 --------------------------------- *)
RECURSIVE DedupMap(_)
\* walletMap after the for-of loop of removeDuplicates has run over ws
DedupMap(ws) ==
  IF ws = <<>> THEN <<>>
  ELSE MapAfter(DedupMap(SubSeq(ws, 1, Len(ws) - 1)), ws[Len(ws)])

\* what the choice between the records of an address goes by: records that
\* agree in seed phrase and totalUSD count as the same choice
Properties(wallet) ==
  [mnemonic |-> wallet.mnemonic, totalUSD |-> wallet.totalUSD]

\* the record removeDuplicates(ws) keeps for the key
KeptFor(ws, key) ==
  LET map == DedupMap(ws) IN Properties(map[MapIndex(map, key)].value)

\* the orders in which the same records can be handed to removeDuplicates
Reordered(ws) ==
  {[k \in 1..Len(ws) |-> ws[f[k]]] : f \in Permutations(1..Len(ws))}

\* the record is one the claim names: with a seed phrase if a record of
\* its address has one, otherwise with the highest totalUSD
StatedChoice(ws, kept) ==
  LET same == {k \in 1..Len(ws) :
                 toLowerCase(ws[k].address) = toLowerCase(kept.address)}
  IN  IF \E k \in same : ws[k].mnemonic # NoMnemonic
        THEN kept.mnemonic # NoMnemonic
        ELSE \A k \in same : ws[k].totalUSD <= kept.totalUSD

\* C38: for every order of the records handed to removeDuplicates the
\* record kept for an address has the seed phrase and totalUSD of the one
\* returned here, and it is one with a seed phrase if a record of the
\* address has one, otherwise one with the highest totalUSD.
C38_OrderIndependent ==
  dedupPc = "done" =>
    \A n \in 1..Len(unique) :
      /\ StatedChoice(filtered, unique[n])
      /\ \A ws \in Reordered(filtered) :
           KeptFor(ws, toLowerCase(unique[n].address)) = Properties(unique[n])

(* -------------------------------- C39 --------------------------------- *)
\* the accounts of the vaults whose secret gives the private key
HoldersOf(privateKey) ==
  {r \in CredentialRecords :
     /\ Resolves(r)
     /\ CredentialOf(r, r.blob[1].plaintext).privateKey = privateKey}

\* the address of the keypair of a private key: the publicKey of the
\* account that holds it
AddressOfKey(privateKey) ==
  (CHOOSE r \in HoldersOf(privateKey) : TRUE).publicKey

\* C39: every wallet written with a private key has as address the address
\* of that key's keypair (for an HD wallet the key is the one derived from
\* the exported mnemonic).
C39_KeyMatchesAddress ==
  exportPc = "written" =>
    \A n \in 1..Len(exportWallets) :
      exportWallets[n].privateKey # NoSecret =>
        AddressOfKey(exportWallets[n].privateKey) = exportWallets[n].address

(* -------------------------------- C40 --------------------------------- *)
\* C40: a scan whose loadCache found a file it could not read or parse goes
\* on without a prior cache, reuses nothing and fetches the accounts in
\* discovery order, all of them when it is not killed; and a scan that is
\* not killed ends with status 0 and all accounts processed also when a
\* save of the cache failed.
C40_UnreadableCacheIgnored ==
  /\ ("LoadError" \in console /\ ~skipFetch) =>
       /\ existingCache = <<>>
       /\ exitCode \in {-1, 0}
       /\ skippedCount = 0
       /\ fetchLog = SubSeq(vault, 1, Len(fetchLog))
       /\ Len(fetchLog) = (IF pc = "fetch" THEN i + 1 ELSE Processed)
       /\ (pc = "done" => Completed /\ fetchLog = vault)
  /\ ("SaveError" \in console /\ pc = "done") =>
       /\ Completed
       /\ i = Len(vault)
       /\ Len(results[1].wallets) = Len(vault)

\* C40 witness: a scan of three accounts that found an unparseable cache
\* file, had a save fail on the way, and completed
C40_Witness ==
  /\ Completed /\ ~skipFetch
  /\ "LoadError" \in console /\ "SaveError" \in console
  /\ Len(vault) = 3 /\ fetchLog = vault
  /\ FileDoc # <<>>

====
